---- MODULE Spec2Model ----
(***************************************************************************)
(* Model of the x64 backend of the emulator (x64_backend.cc): the          *)
(* breakpoint patcher, the exception dispatcher, the next-host-instruction *)
(* resolver, the backend object and its thunks; and of the Vulkan pipeline *)
(* cache (pipeline_cache.cc).                                              *)
(***************************************************************************)
EXTENDS Integers, Sequences, FiniteSets, TLC

VARIABLES
  mem,           \* code memory: address -> byte
  backend_data,  \* breakpoint -> sequence of <<host_address, original_bytes>>
  fatal,         \* an assertion failed and the process stopped
  hist,          \* history of the last patcher call (see Hist* below)
  writes,        \* another writer has stored into code memory
  cb,            \* the last dispatcher callback: [ex, handler_ret, ret, calls]
  step_in,       \* input of the resolver: [insn, thread_info, current_pc]
  step_out,      \* result of the resolver: [done, pc, fatal]
  life,          \* the backend object and the handler registry (see NoLife)
  thunk_in,      \* a thunk invocation: the thunk, the machine at entry, the target
  thunk_out,     \* the machine when the thunk left, and the log of what it did
  race,          \* two threads inside the patcher or the dispatcher (see NoRace)
  pipe           \* the pipeline cache (see NoPipe)

bpVars == <<mem, backend_data, fatal>>
stepVars == <<step_in, step_out>>
thunkVars == <<thunk_in, thunk_out>>
vars == <<mem, backend_data, fatal, hist, writes, cb, step_in, step_out, life,
          thunk_in, thunk_out, race, pipe>>

----------------------------------------------------------------------------
(* Bounds of the model. *)

\* number of bytes of code memory; a two-byte patch at a needs a + 1 too
MemSize == 4
\* most host addresses one ForEachHostAddress call resolves to
MaxHostAddrs == 2
\* most recorded pairs all breakpoints hold together
MaxRecords == 3

CodeAddr == 0 .. (MemSize - 1)
\* addresses a two-byte patch fits at
HostAddr == 0 .. (MemSize - 2)
Breakpoints == {"bp1", "bp2"}

\* the trap signature 0x0F0B (ud2)
kTrapSignature == 3851
\* the two bytes of the trap signature
TrapBytes == {kTrapSignature \div 256, kTrapSignature % 256}
\* the byte the translator emitted at address a: ordinary code, no two alike
CodeByte(a) == 144 + a
\* the bytes another writer stores (0xCC, int3)
ForeignBytes == {204}

----------------------------------------------------------------------------
(* Memory access helpers: big-endian 16-bit load and store. *)

load_and_swap(m, ptr) == m[ptr] * 256 + m[ptr + 1]

store_and_swap(m, ptr, value) ==
  [m EXCEPT ![ptr] = value \div 256, ![ptr + 1] = value % 256]

\* assert_true(cond): a failed assertion is fatal
assert_true(cond) == cond

----------------------------------------------------------------------------
(* Breakpoint patcher. A patcher state is [mem, data, fatal]. *)

\* InstallAt reading the original bytes only after the trap is stored
InstallAt_LoadAfterStore(st, host_address) ==
  LET patched == store_and_swap(st.mem, host_address, kTrapSignature)
      original_bytes == load_and_swap(patched, host_address) IN
  IF ~assert_true(load_and_swap(st.mem, host_address) # kTrapSignature)
  THEN [st EXCEPT !.fatal = TRUE]
  ELSE [mem   |-> patched,
        data  |-> Append(st.data, <<host_address, original_bytes>>),
        fatal |-> FALSE]

\* the callback InstallBreakpoint hands to ForEachHostAddress
InstallAt(st, host_address) ==
  LET original_bytes == load_and_swap(st.mem, host_address) IN
  IF ~assert_true(original_bytes # kTrapSignature)
  THEN [st EXCEPT !.fatal = TRUE]
  ELSE [mem   |-> store_and_swap(st.mem, host_address, kTrapSignature),
        data  |-> Append(st.data, <<host_address, original_bytes>>),
        fatal |-> FALSE]

\* Breakpoint::ForEachHostAddress: the callback on every resolved address
RECURSIVE ForEachHostAddress(_, _)
ForEachHostAddress(st, addrs) ==
  IF addrs = <<>> \/ st.fatal THEN st
  ELSE ForEachHostAddress(InstallAt(st, Head(addrs)), Tail(addrs))

InstallBreakpoint(m, data, addrs) ==
  ForEachHostAddress([mem |-> m, data |-> data, fatal |-> FALSE], addrs)

\* what MapGuestAddressToMachineCode returns for a guest address the function
\* has no machine code for (a null address)
NoHostAddress == 0 - 1

\* InstallBreakpoint(breakpoint, fn) patching although the guest address has
\* no host mapping (the early return left out; the null address taken as 0)
InstallBreakpointFn_NoNullCheck(m, data, address_type, is_guest, host_address) ==
  LET st == [mem |-> m, data |-> data, fatal |-> FALSE] IN
  IF ~assert_true(address_type = "kGuest") THEN [st EXCEPT !.fatal = TRUE]
  ELSE IF ~assert_true(is_guest) THEN [st EXCEPT !.fatal = TRUE]
  ELSE InstallAt(st, IF host_address = NoHostAddress THEN 0 ELSE host_address)

\* InstallBreakpoint(breakpoint, fn). address_type: breakpoint->address_type();
\* is_guest: fn->is_guest(); host_address: what MapGuestAddressToMachineCode
\* returns for breakpoint->guest_address()
InstallBreakpointFn(m, data, address_type, is_guest, host_address) ==
  LET st == [mem |-> m, data |-> data, fatal |-> FALSE] IN
  IF ~assert_true(address_type = "kGuest") THEN [st EXCEPT !.fatal = TRUE]
  ELSE IF ~assert_true(is_guest) THEN [st EXCEPT !.fatal = TRUE]
  ELSE IF host_address = NoHostAddress
  THEN \* assert_always(); return;
       [st EXCEPT !.fatal = ~assert_true(FALSE)]
  ELSE InstallAt(st, host_address)

\* UninstallAt restoring without checking the bytes it overwrites
UninstallAt_NoCheck(st, pair) ==
  [st EXCEPT !.mem = store_and_swap(st.mem, pair[1], pair[2])]

\* one iteration of the loop of UninstallBreakpoint
UninstallAt(st, pair) ==
  LET instruction_bytes == load_and_swap(st.mem, pair[1]) IN
  IF ~assert_true(instruction_bytes = kTrapSignature)
  THEN [st EXCEPT !.fatal = TRUE]
  ELSE [st EXCEPT !.mem = store_and_swap(st.mem, pair[1], pair[2])]

RECURSIVE UninstallLoop(_, _)
UninstallLoop(st, pairs) ==
  IF pairs = <<>> \/ st.fatal THEN st
  ELSE UninstallLoop(UninstallAt(st, Head(pairs)), Tail(pairs))

\* UninstallBreakpoint removing the last record only (pop_back for clear)
UninstallBreakpoint_DropsLastOnly(m, data) ==
  LET st == UninstallLoop([mem |-> m, data |-> data, fatal |-> FALSE], data) IN
  IF st.fatal \/ st.data = <<>> THEN st
  ELSE [st EXCEPT !.data = SubSeq(@, 1, Len(@) - 1)]

\* UninstallBreakpoint leaving the records in place
UninstallBreakpoint_KeepsRecords(m, data) ==
  UninstallLoop([mem |-> m, data |-> data, fatal |-> FALSE], data)

UninstallBreakpoint(m, data) ==
  LET st == UninstallLoop([mem |-> m, data |-> data, fatal |-> FALSE], data) IN
  IF st.fatal THEN st ELSE [st EXCEPT !.data = <<>>]

----------------------------------------------------------------------------
(* Exception dispatcher. *)

ExceptionCodes == {"kInvalidException", "kAccessViolation", "kIllegalInstruction"}
\* the register snapshot of an exception record, taken as one value
ThreadContexts == {"snapshot"}
Exceptions == [code : ExceptionCodes, pc : HostAddr, thread_context : ThreadContexts]

\* what the callback hands back: its return value, the calls it made to
\* Processor::OnThreadBreakpointHit (the record passed, per call), and code
\* memory and the exception record as the callback itself left them
Declined(m, ex) == [ret |-> FALSE, calls |-> <<>>, mem |-> m, ex |-> ex]
Delegated(m, ex, handler_ret) == [ret |-> handler_ret, calls |-> <<ex>>, mem |-> m, ex |-> ex]

\* ExceptionCallback reporting every trap of its own as handled
ExceptionCallback_AlwaysHandled(m, ex, handler_ret) ==
  IF ex.code # "kIllegalInstruction"
  THEN Declined(m, ex)
  ELSE IF load_and_swap(m, ex.pc) # kTrapSignature
       THEN Declined(m, ex)
       ELSE Delegated(m, ex, TRUE)

\* ExceptionCallback looking at the bytes only, not at the exception code
ExceptionCallback_NoCodeCheck(m, ex, handler_ret) ==
  IF load_and_swap(m, ex.pc) # kTrapSignature
  THEN Declined(m, ex)
  ELSE Delegated(m, ex, handler_ret)

\* ExceptionCallback comparing the first byte only (0x0F, any two-byte opcode)
ExceptionCallback_FirstByteOnly(m, ex, handler_ret) ==
  IF ex.code # "kIllegalInstruction"
  THEN Declined(m, ex)
  ELSE IF m[ex.pc] # kTrapSignature \div 256
       THEN Declined(m, ex)
       ELSE Delegated(m, ex, handler_ret)

\* ExceptionCallback overwriting the trap with two nops before it delegates
ExceptionCallback_ClearsTrap(m, ex, handler_ret) ==
  IF ex.code # "kIllegalInstruction"
  THEN Declined(m, ex)
  ELSE IF load_and_swap(m, ex.pc) # kTrapSignature
       THEN Declined(m, ex)
       ELSE Delegated(store_and_swap(m, ex.pc, 144 * 256 + 144), ex, handler_ret)

\* handler_ret is what Processor::OnThreadBreakpointHit returns if called
ExceptionCallback(m, ex, handler_ret) ==
  IF ex.code # "kIllegalInstruction"
  THEN Declined(m, ex)
  ELSE LET instruction_bytes == load_and_swap(m, ex.pc) IN
       IF instruction_bytes # kTrapSignature
       THEN Declined(m, ex)
       ELSE Delegated(m, ex, handler_ret)

----------------------------------------------------------------------------
(* Next-host-instruction resolver. *)

X86_EFLAGS_CF == 1
X86_EFLAGS_PF == 4
X86_EFLAGS_ZF == 64
X86_EFLAGS_SF == 128
X86_EFLAGS_OF == 2048

\* eflags & mask, for a mask of one bit
BitAnd(eflags, mask) == ((eflags \div mask) % 2) * mask

CondJumps == {"JAE", "JA", "JBE", "JB", "JE", "JGE", "JG", "JLE", "JL",
              "JNE", "JNO", "JNP", "JNS", "JO", "JP", "JS"}

\* TestCapstoneEflags with JB testing ZF instead of CF
TestCapstoneEflags_JbTestsZf(eflags, insn) ==
  LET CF == BitAnd(eflags, X86_EFLAGS_CF)
      PF == BitAnd(eflags, X86_EFLAGS_PF)
      ZF == BitAnd(eflags, X86_EFLAGS_ZF)
      SF == BitAnd(eflags, X86_EFLAGS_SF)
      OF == BitAnd(eflags, X86_EFLAGS_OF)
      Ret(b) == [ret |-> b, fatal |-> FALSE]
  IN CASE insn = "JAE" -> Ret(CF = 0 /\ ZF = 0)
       [] insn = "JA"  -> Ret(CF = 0)
       [] insn = "JBE" -> Ret(CF = X86_EFLAGS_CF \/ ZF = X86_EFLAGS_ZF)
       [] insn = "JB"  -> Ret(ZF = X86_EFLAGS_ZF)
       [] insn = "JE"  -> Ret(ZF = X86_EFLAGS_ZF)
       [] insn = "JGE" -> Ret(SF = OF)
       [] insn = "JG"  -> Ret(ZF = 0 /\ SF = OF)
       [] insn = "JLE" -> Ret(ZF = X86_EFLAGS_ZF \/ SF # X86_EFLAGS_OF)
       [] insn = "JL"  -> Ret(SF # OF)
       [] insn = "JNE" -> Ret(ZF = 0)
       [] insn = "JNO" -> Ret(OF = 0)
       [] insn = "JNP" -> Ret(PF = 0)
       [] insn = "JNS" -> Ret(SF = 0)
       [] insn = "JO"  -> Ret(OF = X86_EFLAGS_OF)
       [] insn = "JP"  -> Ret(PF = X86_EFLAGS_PF)
       [] insn = "JS"  -> Ret(SF = X86_EFLAGS_SF)
       [] OTHER        -> [ret |-> FALSE, fatal |-> TRUE]

\* CF, PF, ZF, SF, OF are the masked values eflags & X86_EFLAGS_xx, not
\* booleans; the result is [ret, fatal], fatal being the
\* assert_unhandled_case of the default
TestCapstoneEflags(eflags, insn) ==
  LET CF == BitAnd(eflags, X86_EFLAGS_CF)
      PF == BitAnd(eflags, X86_EFLAGS_PF)
      ZF == BitAnd(eflags, X86_EFLAGS_ZF)
      SF == BitAnd(eflags, X86_EFLAGS_SF)
      OF == BitAnd(eflags, X86_EFLAGS_OF)
      Ret(b) == [ret |-> b, fatal |-> FALSE]
  IN CASE insn = "JAE" -> Ret(CF = 0 /\ ZF = 0)
       [] insn = "JA"  -> Ret(CF = 0)
       [] insn = "JBE" -> Ret(CF = X86_EFLAGS_CF \/ ZF = X86_EFLAGS_ZF)
       [] insn = "JB"  -> Ret(CF = X86_EFLAGS_CF)
       [] insn = "JE"  -> Ret(ZF = X86_EFLAGS_ZF)
       [] insn = "JGE" -> Ret(SF = OF)
       [] insn = "JG"  -> Ret(ZF = 0 /\ SF = OF)
       [] insn = "JLE" -> Ret(ZF = X86_EFLAGS_ZF \/ SF # X86_EFLAGS_OF)
       [] insn = "JL"  -> Ret(SF # OF)
       [] insn = "JNE" -> Ret(ZF = 0)
       [] insn = "JNO" -> Ret(OF = 0)
       [] insn = "JNP" -> Ret(PF = 0)
       [] insn = "JNS" -> Ret(SF = 0)
       [] insn = "JO"  -> Ret(OF = X86_EFLAGS_OF)
       [] insn = "JP"  -> Ret(PF = X86_EFLAGS_PF)
       [] insn = "JS"  -> Ret(SF = X86_EFLAGS_SF)
       [] OTHER        -> [ret |-> FALSE, fatal |-> TRUE]

\* the sixteen 64-bit general-purpose registers, in the order of the switch
GprNames == <<"rax", "rcx", "rdx", "rbx", "rsp", "rbp", "rsi", "rdi",
              "r8", "r9", "r10", "r11", "r12", "r13", "r14", "r15">>
Gprs == {GprNames[i] : i \in 1 .. Len(GprNames)}

\* ReadCapstoneReg with the case of RCX returning context->rax
ReadCapstoneReg_RcxReadsRax(context, reg) ==
  IF reg = "rcx" THEN [val |-> context["rax"], fatal |-> FALSE]
  ELSE IF reg \in Gprs THEN [val |-> context[reg], fatal |-> FALSE]
  ELSE [val |-> 0, fatal |-> TRUE]

\* the result is [val, fatal]; fatal is the assert_unhandled_case of the default
ReadCapstoneReg(context, reg) ==
  IF reg \in Gprs THEN [val |-> context[reg], fatal |-> FALSE]
  ELSE [val |-> 0, fatal |-> TRUE]

\* CalculateNextHostInstruction stepping over a RET as over any other
\* instruction
CalculateNextHostInstruction_RetFallsThrough(thread_info, current_pc, insn) ==
  CASE insn.id = "CALL" ->
         IF ~assert_true(insn.op_count = 1) \/ ~assert_true(insn.op_type = "REG")
         THEN [pc |-> 0, fatal |-> TRUE]
         ELSE LET r == ReadCapstoneReg(thread_info.host_context, insn.reg)
              IN [pc |-> r.val, fatal |-> r.fatal]
    [] insn.id = "RET" ->
         IF ~assert_true(insn.op_count = 0)
         THEN [pc |-> thread_info.stack[thread_info.host_context["rsp"]], fatal |-> TRUE]
         ELSE [pc |-> current_pc + insn.size, fatal |-> FALSE]
    [] insn.id = "JMP" ->
         IF ~assert_true(insn.op_count = 1)
         THEN [pc |-> 0, fatal |-> TRUE]
         ELSE IF insn.op_type = "IMM"
         THEN [pc |-> insn.imm, fatal |-> FALSE]
         ELSE IF insn.op_type = "REG"
         THEN LET r == ReadCapstoneReg(thread_info.host_context, insn.reg)
              IN [pc |-> r.val, fatal |-> r.fatal]
         ELSE \* assert_always, then the fall-through address
              [pc |-> current_pc + insn.size, fatal |-> TRUE]
    [] insn.id \in {"JCXZ", "JECXZ", "JRCXZ"} ->
         \* assert_always, then the fall-through address
         [pc |-> current_pc + insn.size, fatal |-> TRUE]
    [] insn.id \in CondJumps ->
         IF ~assert_true(insn.op_count = 1) \/ ~assert_true(insn.op_type = "IMM")
         THEN [pc |-> 0, fatal |-> TRUE]
         ELSE LET target_pc == insn.imm
                  test_passed == TestCapstoneEflags(thread_info.host_context["eflags"], insn.id)
              IN IF test_passed.ret
                 THEN [pc |-> target_pc, fatal |-> test_passed.fatal]
                 ELSE [pc |-> current_pc + insn.size, fatal |-> test_passed.fatal]
    [] OTHER ->
         \* not a branching instruction
         [pc |-> current_pc + insn.size, fatal |-> FALSE]

\* CalculateNextHostInstruction taking the immediate of a JMP as a
\* displacement
CalculateNextHostInstruction_JmpRelative(thread_info, current_pc, insn) ==
  CASE insn.id = "CALL" ->
         IF ~assert_true(insn.op_count = 1) \/ ~assert_true(insn.op_type = "REG")
         THEN [pc |-> 0, fatal |-> TRUE]
         ELSE LET r == ReadCapstoneReg(thread_info.host_context, insn.reg)
              IN [pc |-> r.val, fatal |-> r.fatal]
    [] insn.id = "RET" ->
         IF ~assert_true(insn.op_count = 0)
         THEN [pc |-> thread_info.stack[thread_info.host_context["rsp"]], fatal |-> TRUE]
         ELSE [pc |-> thread_info.stack[thread_info.host_context["rsp"]], fatal |-> FALSE]
    [] insn.id = "JMP" ->
         IF ~assert_true(insn.op_count = 1)
         THEN [pc |-> 0, fatal |-> TRUE]
         ELSE IF insn.op_type = "IMM"
         THEN [pc |-> current_pc + insn.imm, fatal |-> FALSE]
         ELSE IF insn.op_type = "REG"
         THEN LET r == ReadCapstoneReg(thread_info.host_context, insn.reg)
              IN [pc |-> r.val, fatal |-> r.fatal]
         ELSE \* assert_always, then the fall-through address
              [pc |-> current_pc + insn.size, fatal |-> TRUE]
    [] insn.id \in {"JCXZ", "JECXZ", "JRCXZ"} ->
         \* assert_always, then the fall-through address
         [pc |-> current_pc + insn.size, fatal |-> TRUE]
    [] insn.id \in CondJumps ->
         IF ~assert_true(insn.op_count = 1) \/ ~assert_true(insn.op_type = "IMM")
         THEN [pc |-> 0, fatal |-> TRUE]
         ELSE LET target_pc == insn.imm
                  test_passed == TestCapstoneEflags(thread_info.host_context["eflags"], insn.id)
              IN IF test_passed.ret
                 THEN [pc |-> target_pc, fatal |-> test_passed.fatal]
                 ELSE [pc |-> current_pc + insn.size, fatal |-> test_passed.fatal]
    [] OTHER ->
         \* not a branching instruction
         [pc |-> current_pc + insn.size, fatal |-> FALSE]

\* CalculateNextHostInstruction stepping one byte over an instruction that
\* is not a branch
CalculateNextHostInstruction_OneByteStep(thread_info, current_pc, insn) ==
  CASE insn.id = "CALL" ->
         IF ~assert_true(insn.op_count = 1) \/ ~assert_true(insn.op_type = "REG")
         THEN [pc |-> 0, fatal |-> TRUE]
         ELSE LET r == ReadCapstoneReg(thread_info.host_context, insn.reg)
              IN [pc |-> r.val, fatal |-> r.fatal]
    [] insn.id = "RET" ->
         IF ~assert_true(insn.op_count = 0)
         THEN [pc |-> thread_info.stack[thread_info.host_context["rsp"]], fatal |-> TRUE]
         ELSE [pc |-> thread_info.stack[thread_info.host_context["rsp"]], fatal |-> FALSE]
    [] insn.id = "JMP" ->
         IF ~assert_true(insn.op_count = 1)
         THEN [pc |-> 0, fatal |-> TRUE]
         ELSE IF insn.op_type = "IMM"
         THEN [pc |-> insn.imm, fatal |-> FALSE]
         ELSE IF insn.op_type = "REG"
         THEN LET r == ReadCapstoneReg(thread_info.host_context, insn.reg)
              IN [pc |-> r.val, fatal |-> r.fatal]
         ELSE \* assert_always, then the fall-through address
              [pc |-> current_pc + insn.size, fatal |-> TRUE]
    [] insn.id \in {"JCXZ", "JECXZ", "JRCXZ"} ->
         \* assert_always, then the fall-through address
         [pc |-> current_pc + insn.size, fatal |-> TRUE]
    [] insn.id \in CondJumps ->
         IF ~assert_true(insn.op_count = 1) \/ ~assert_true(insn.op_type = "IMM")
         THEN [pc |-> 0, fatal |-> TRUE]
         ELSE LET target_pc == insn.imm
                  test_passed == TestCapstoneEflags(thread_info.host_context["eflags"], insn.id)
              IN IF test_passed.ret
                 THEN [pc |-> target_pc, fatal |-> test_passed.fatal]
                 ELSE [pc |-> current_pc + insn.size, fatal |-> test_passed.fatal]
    [] OTHER ->
         \* not a branching instruction
         [pc |-> current_pc + 1, fatal |-> FALSE]

\* CalculateNextHostInstruction answering a CALL of an immediate with the
\* immediate
CalculateNextHostInstruction_CallImmediate(thread_info, current_pc, insn) ==
  CASE insn.id = "CALL" /\ insn.op_count = 1 /\ insn.op_type = "IMM" ->
         [pc |-> insn.imm, fatal |-> FALSE]
    [] insn.id = "CALL" ->
         IF ~assert_true(insn.op_count = 1) \/ ~assert_true(insn.op_type = "REG")
         THEN [pc |-> 0, fatal |-> TRUE]
         ELSE LET r == ReadCapstoneReg(thread_info.host_context, insn.reg)
              IN [pc |-> r.val, fatal |-> r.fatal]
    [] insn.id = "RET" ->
         IF ~assert_true(insn.op_count = 0)
         THEN [pc |-> thread_info.stack[thread_info.host_context["rsp"]], fatal |-> TRUE]
         ELSE [pc |-> thread_info.stack[thread_info.host_context["rsp"]], fatal |-> FALSE]
    [] insn.id = "JMP" ->
         IF ~assert_true(insn.op_count = 1)
         THEN [pc |-> 0, fatal |-> TRUE]
         ELSE IF insn.op_type = "IMM"
         THEN [pc |-> insn.imm, fatal |-> FALSE]
         ELSE IF insn.op_type = "REG"
         THEN LET r == ReadCapstoneReg(thread_info.host_context, insn.reg)
              IN [pc |-> r.val, fatal |-> r.fatal]
         ELSE \* assert_always, then the fall-through address
              [pc |-> current_pc + insn.size, fatal |-> TRUE]
    [] insn.id \in {"JCXZ", "JECXZ", "JRCXZ"} ->
         \* assert_always, then the fall-through address
         [pc |-> current_pc + insn.size, fatal |-> TRUE]
    [] insn.id \in CondJumps ->
         IF ~assert_true(insn.op_count = 1) \/ ~assert_true(insn.op_type = "IMM")
         THEN [pc |-> 0, fatal |-> TRUE]
         ELSE LET target_pc == insn.imm
                  test_passed == TestCapstoneEflags(thread_info.host_context["eflags"], insn.id)
              IN IF test_passed.ret
                 THEN [pc |-> target_pc, fatal |-> test_passed.fatal]
                 ELSE [pc |-> current_pc + insn.size, fatal |-> test_passed.fatal]
    [] OTHER ->
         \* not a branching instruction
         [pc |-> current_pc + insn.size, fatal |-> FALSE]

\* insn is what cs_disasm_iter decoded at current_pc:
\*   [id, size, op_count, op_type, imm, reg]  (operands[0] of the detail)
\* thread_info is [host_context: register -> value and eflags, stack: the
\* 64-bit words of memory, by address]; the result is [pc, fatal]
CalculateNextHostInstruction(thread_info, current_pc, insn) ==
  CASE insn.id = "CALL" ->
         IF ~assert_true(insn.op_count = 1) \/ ~assert_true(insn.op_type = "REG")
         THEN [pc |-> 0, fatal |-> TRUE]
         ELSE LET r == ReadCapstoneReg(thread_info.host_context, insn.reg)
              IN [pc |-> r.val, fatal |-> r.fatal]
    [] insn.id = "RET" ->
         IF ~assert_true(insn.op_count = 0)
         THEN [pc |-> thread_info.stack[thread_info.host_context["rsp"]], fatal |-> TRUE]
         ELSE [pc |-> thread_info.stack[thread_info.host_context["rsp"]], fatal |-> FALSE]
    [] insn.id = "JMP" ->
         IF ~assert_true(insn.op_count = 1)
         THEN [pc |-> 0, fatal |-> TRUE]
         ELSE IF insn.op_type = "IMM"
         THEN [pc |-> insn.imm, fatal |-> FALSE]
         ELSE IF insn.op_type = "REG"
         THEN LET r == ReadCapstoneReg(thread_info.host_context, insn.reg)
              IN [pc |-> r.val, fatal |-> r.fatal]
         ELSE \* assert_always, then the fall-through address
              [pc |-> current_pc + insn.size, fatal |-> TRUE]
    [] insn.id \in {"JCXZ", "JECXZ", "JRCXZ"} ->
         \* assert_always, then the fall-through address
         [pc |-> current_pc + insn.size, fatal |-> TRUE]
    [] insn.id \in CondJumps ->
         IF ~assert_true(insn.op_count = 1) \/ ~assert_true(insn.op_type = "IMM")
         THEN [pc |-> 0, fatal |-> TRUE]
         ELSE LET target_pc == insn.imm
                  test_passed == TestCapstoneEflags(thread_info.host_context["eflags"], insn.id)
              IN IF test_passed.ret
                 THEN [pc |-> target_pc, fatal |-> test_passed.fatal]
                 ELSE [pc |-> current_pc + insn.size, fatal |-> test_passed.fatal]
    [] OTHER ->
         \* not a branching instruction
         [pc |-> current_pc + insn.size, fatal |-> FALSE]

----------------------------------------------------------------------------
(* Backend coordinator: construction, Initialize, destruction.             *)
(* life is the backend object with what its calls did to the process-wide  *)
(* handler registry, the system heap and the disassembler:                 *)
(*   phase                 "new", "constructed", "destroyed"               *)
(*   capstone_handle_      0, or the handle cs_open returned               *)
(*   emitter_data_         0, or the address PlaceData returned            *)
(*   code_cache_           "null", "created", "initialized"                *)
(*   machine_info_         "unset", or [supports_extended_load_store,      *)
(*                         register_sets]                                  *)
(*   thunks                the three thunk handles are set                 *)
(*   indirection_default   "unset" or "resolve_function_thunk"             *)
(*   committed             the range 0x9FFF0000..0x9FFFFFFF is committed   *)
(*   initialize_calls      calls of Initialize so far                      *)
(*   last_result           "none", or what the last Initialize returned    *)
(*   handler_installs      calls of ExceptionHandler::Install              *)
(*   handler_uninstalls    calls of ExceptionHandler::Uninstall            *)
(*   registered            entries of the callback in the registry         *)
(*   unmatched_uninstalls  Uninstall calls that found no entry             *)
(*   heap_frees, cs_closes calls of SystemHeapFree and cs_close            *)
(*   thunk_emits           thunks emitted                                  *)
(*   indirection_sets      calls of set_indirection_default                *)
(*   heap_allocs           calls of X64Emitter::PlaceData                  *)
(*   fatal                 an assertion failed                             *)
(* and, for the properties only,                                           *)
(*   cs_open_ok            what cs_open returned in the constructor        *)
(*   args                  whether Initialize was called, and base_ok and  *)
(*                         cache_ok of the last call                       *)
(*   entry                 the counters when the last Initialize began     *)

\* most calls of Initialize on one backend object
MaxInitializeCalls == 4

LifeCounters(l) ==
  [thunk_emits |-> l.thunk_emits, indirection_sets |-> l.indirection_sets,
   heap_allocs |-> l.heap_allocs, handler_installs |-> l.handler_installs,
   emitter_data_ |-> l.emitter_data_]

NoLife ==
  [phase |-> "new", capstone_handle_ |-> 0, emitter_data_ |-> 0,
   code_cache_ |-> "null", machine_info_ |-> "unset", thunks |-> FALSE,
   indirection_default |-> "unset", committed |-> FALSE,
   initialize_calls |-> 0, last_result |-> "none",
   handler_installs |-> 0, handler_uninstalls |-> 0, registered |-> 0,
   unmatched_uninstalls |-> 0, heap_frees |-> 0, cs_closes |-> 0,
   thunk_emits |-> 0, indirection_sets |-> 0, heap_allocs |-> 0,
   fatal |-> FALSE,
   cs_open_ok |-> TRUE,
   args |-> [called |-> FALSE, base_ok |-> FALSE, cache_ok |-> FALSE],
   entry |-> [thunk_emits |-> 0, indirection_sets |-> 0, heap_allocs |-> 0,
              handler_installs |-> 0, emitter_data_ |-> 0]]

\* ExceptionHandler::Install(&ExceptionCallbackThunk, this): one more entry
ExceptionHandlerInstall(l) ==
  [l EXCEPT !.handler_installs = @ + 1, !.registered = @ + 1]

\* ExceptionHandler::Uninstall(&ExceptionCallbackThunk, this): removes one
\* entry if there is one
ExceptionHandlerUninstall(l) ==
  [l EXCEPT !.handler_uninstalls = @ + 1,
            !.registered = IF @ > 0 THEN @ - 1 ELSE 0,
            !.unmatched_uninstalls = IF l.registered > 0 THEN @ ELSE @ + 1]

\* X64Backend::X64Backend; cs_open_ok is whether cs_open returned CS_ERR_OK
X64Backend(l, cs_open_ok) ==
  [l EXCEPT !.phase = "constructed",
            !.capstone_handle_ = IF cs_open_ok THEN 1 ELSE 0,
            !.fatal = ~cs_open_ok,
            !.cs_open_ok = cs_open_ok]

\* the two register sets Initialize describes
RegisterSets ==
  <<[id |-> 0, name |-> "gpr", types |-> {"INT_TYPES"}],
    [id |-> 1, name |-> "xmm", types |-> {"FLOAT_TYPES", "VEC_TYPES"}]>>

\* Initialize installing the exception callback before the code cache is
\* initialized
Initialize_InstallsFirst(l, base_ok, cache_ok, enable_haswell_instructions, cpu_movbe, thunk_low) ==
  LET l0 == [l EXCEPT !.initialize_calls = @ + 1]
      l1 == [l0 EXCEPT !.machine_info_ =
                         [supports_extended_load_store |->
                            IF enable_haswell_instructions THEN cpu_movbe ELSE FALSE,
                          register_sets |-> RegisterSets],
                       !.code_cache_ = "created",
                       !.indirection_default = "unset",
                       !.committed = FALSE]
      l2 == [l1 EXCEPT !.code_cache_ = "initialized", !.thunks = TRUE,
                       !.thunk_emits = @ + 3]
      l3 == [l2 EXCEPT !.indirection_default = "resolve_function_thunk",
                       !.indirection_sets = @ + 1,
                       !.committed = TRUE,
                       !.emitter_data_ = 1,
                       !.heap_allocs = @ + 1]
  IN IF ~base_ok THEN [l0 EXCEPT !.last_result = FALSE]
     ELSE IF ~cache_ok THEN [ExceptionHandlerInstall(l1) EXCEPT !.last_result = FALSE]
     ELSE IF ~thunk_low THEN [ExceptionHandlerInstall(l2) EXCEPT !.fatal = TRUE]
     ELSE [ExceptionHandlerInstall(l3) EXCEPT !.last_result = TRUE]

\* X64Backend::Initialize. base_ok: Backend::Initialize succeeded; cache_ok:
\* code_cache_->Initialize succeeded; enable_haswell_instructions: the flag;
\* cpu_movbe: the processor has MOVBE; thunk_low: the resolve-function thunk
\* was placed below 4 GiB
Initialize(l, base_ok, cache_ok, enable_haswell_instructions, cpu_movbe, thunk_low) ==
  LET l0 == [l EXCEPT !.initialize_calls = @ + 1]
      \* X64CodeCache::Create() is a new cache: nothing is set or committed in it
      l1 == [l0 EXCEPT !.machine_info_ =
                         [supports_extended_load_store |->
                            IF enable_haswell_instructions THEN cpu_movbe ELSE FALSE,
                          register_sets |-> RegisterSets],
                       !.code_cache_ = "created",
                       !.indirection_default = "unset",
                       !.committed = FALSE]
      l2 == [l1 EXCEPT !.code_cache_ = "initialized", !.thunks = TRUE,
                       !.thunk_emits = @ + 3]
      l3 == [l2 EXCEPT !.indirection_default = "resolve_function_thunk",
                       !.indirection_sets = @ + 1,
                       !.committed = TRUE,
                       !.emitter_data_ = 1,
                       !.heap_allocs = @ + 1]
  IN IF ~base_ok THEN [l0 EXCEPT !.last_result = FALSE]
     ELSE IF ~cache_ok THEN [l1 EXCEPT !.last_result = FALSE]
     ELSE IF ~thunk_low THEN [l2 EXCEPT !.fatal = TRUE]
     ELSE [ExceptionHandlerInstall(l3) EXCEPT !.last_result = TRUE]

\* X64Backend::~X64Backend
Destructor(l) ==
  LET l1 == IF l.emitter_data_ # 0
            THEN [l EXCEPT !.heap_frees = @ + 1, !.emitter_data_ = 0]
            ELSE l
      l2 == IF l1.capstone_handle_ # 0
            THEN [l1 EXCEPT !.cs_closes = @ + 1, !.capstone_handle_ = 0]
            ELSE l1
  IN [ExceptionHandlerUninstall(l2) EXCEPT !.phase = "destroyed"]

----------------------------------------------------------------------------
(* Thunk emitter. A thunk is the sequence of instructions its Emit function *)
(* hands to the assembler, one element per emitted instruction:             *)
(*   Store(off, reg)   mov(qword[rsp + off], reg)                           *)
(*   Load(reg, off)    mov(reg, qword[rsp + off])                           *)
(*   Mov(dst, src)     mov(dst, src)                                        *)
(*   MovImm(dst, imm)  mov(dst, imm)                                        *)
(*   SubRsp(n)         sub(rsp, n)                                          *)
(*   AddRsp(n)         add(rsp, n)                                          *)
(*   Call(reg)         call(reg)                                            *)
(*   Jmp(reg)          jmp(reg)                                             *)
(*   Ret               ret()                                                *)
(* The movaps of xmm6..xmm15 are commented out in the source and so are not *)
(* part of the sequences.                                                   *)

Instr(op, reg, reg2, imm) == [op |-> op, reg |-> reg, reg2 |-> reg2, imm |-> imm]
Store(off, reg) == Instr("store", reg, "none", off)
Load(reg, off) == Instr("load", reg, "none", off)
Mov(dst, src) == Instr("mov", dst, src, 0)
MovImm(dst, imm) == Instr("movimm", dst, "none", imm)
SubRsp(n) == Instr("sub", "rsp", "none", n)
AddRsp(n) == Instr("add", "rsp", "none", n)
Call(reg) == Instr("call", reg, "none", 0)
Jmp(reg) == Instr("jmp", reg, "none", 0)
Ret == Instr("ret", "none", "none", 0)

\* a frame of 104 bytes, too small for the slots at 104 and 112
THUNK_STACK_SIZE_TooSmall == 13 * 8
\* StackLayout::THUNK_STACK_SIZE
THUNK_STACK_SIZE == 120
\* the address of ResolveFunction
ResolveFunction == 24576

\* the host-to-guest thunk loading rbx and rcx from each other's slot
EmitHostToGuestThunk_SwappedRestore ==
  LET stack_size == THUNK_STACK_SIZE IN
    <<Store(8 * 3, "r8"),
      Store(8 * 2, "rdx"),
      Store(8 * 1, "rcx"),
      SubRsp(stack_size),
      Store(48, "rbx"),
      Store(56, "rcx"),
      Store(64, "rbp"),
      Store(72, "rsi"),
      Store(80, "rdi"),
      Store(88, "r12"),
      Store(96, "r13"),
      Store(104, "r14"),
      Store(112, "r15"),
      Mov("rax", "rcx"),
      Mov("rcx", "rdx"),
      Mov("rdx", "r8"),
      Call("rax"),
      Load("rbx", 56),
      Load("rcx", 48),
      Load("rbp", 64),
      Load("rsi", 72),
      Load("rdi", 80),
      Load("r12", 88),
      Load("r13", 96),
      Load("r14", 104),
      Load("r15", 112),
      AddRsp(stack_size),
      Load("rcx", 8 * 1),
      Load("rdx", 8 * 2),
      Load("r8", 8 * 3),
      Ret>>

EmitHostToGuestThunk ==
  LET stack_size == THUNK_STACK_SIZE IN
    <<Store(8 * 3, "r8"),
      Store(8 * 2, "rdx"),
      Store(8 * 1, "rcx"),
      SubRsp(stack_size),
      Store(48, "rbx"),
      Store(56, "rcx"),
      Store(64, "rbp"),
      Store(72, "rsi"),
      Store(80, "rdi"),
      Store(88, "r12"),
      Store(96, "r13"),
      Store(104, "r14"),
      Store(112, "r15"),
      Mov("rax", "rcx"),
      Mov("rcx", "rdx"),
      Mov("rdx", "r8"),
      Call("rax"),
      Load("rbx", 48),
      Load("rcx", 56),
      Load("rbp", 64),
      Load("rsi", 72),
      Load("rdi", 80),
      Load("r12", 88),
      Load("r13", 96),
      Load("r14", 104),
      Load("r15", 112),
      AddRsp(stack_size),
      Load("rcx", 8 * 1),
      Load("rdx", 8 * 2),
      Load("r8", 8 * 3),
      Ret>>

\* the guest-to-host thunk leaving arg2 in r10
EmitGuestToHostThunk_DropsArg2 ==
  LET stack_size == THUNK_STACK_SIZE IN
    <<Store(8 * 2, "rdx"),
      Store(8 * 1, "rcx"),
      SubRsp(stack_size),
      Store(48, "rbx"),
      Store(56, "rcx"),
      Store(64, "rbp"),
      Store(72, "rsi"),
      Store(80, "rdi"),
      Store(88, "r12"),
      Store(96, "r13"),
      Store(104, "r14"),
      Store(112, "r15"),
      Mov("rax", "rdx"),
      Mov("rdx", "r8"),
      Mov("r8", "r9"),
      Call("rax"),
      Load("rbx", 48),
      Load("rcx", 56),
      Load("rbp", 64),
      Load("rsi", 72),
      Load("rdi", 80),
      Load("r12", 88),
      Load("r13", 96),
      Load("r14", 104),
      Load("r15", 112),
      AddRsp(stack_size),
      Load("rcx", 8 * 1),
      Load("rdx", 8 * 2),
      Ret>>

EmitGuestToHostThunk ==
  LET stack_size == THUNK_STACK_SIZE IN
    <<Store(8 * 2, "rdx"),
      Store(8 * 1, "rcx"),
      SubRsp(stack_size),
      Store(48, "rbx"),
      Store(56, "rcx"),
      Store(64, "rbp"),
      Store(72, "rsi"),
      Store(80, "rdi"),
      Store(88, "r12"),
      Store(96, "r13"),
      Store(104, "r14"),
      Store(112, "r15"),
      Mov("rax", "rdx"),
      Mov("rdx", "r8"),
      Mov("r8", "r9"),
      Mov("r9", "r10"),
      Call("rax"),
      Load("rbx", 48),
      Load("rcx", 56),
      Load("rbp", 64),
      Load("rsi", 72),
      Load("rdi", 80),
      Load("r12", 88),
      Load("r13", 96),
      Load("r14", 104),
      Load("r15", 112),
      AddRsp(stack_size),
      Load("rcx", 8 * 1),
      Load("rdx", 8 * 2),
      Ret>>

\* the resolve-function thunk calling the resolved function and returning
EmitResolveFunctionThunk_CallsResolved ==
  LET stack_size == THUNK_STACK_SIZE IN
    <<Store(8 * 2, "rdx"),
      Store(8 * 1, "rcx"),
      SubRsp(stack_size),
      Store(48, "rbx"),
      Store(56, "rcx"),
      Store(64, "rbp"),
      Store(72, "rsi"),
      Store(80, "rdi"),
      Store(88, "r12"),
      Store(96, "r13"),
      Store(104, "r14"),
      Store(112, "r15"),
      Mov("rdx", "rbx"),
      MovImm("rax", ResolveFunction),
      Call("rax"),
      Load("rbx", 48),
      Load("rcx", 56),
      Load("rbp", 64),
      Load("rsi", 72),
      Load("rdi", 80),
      Load("r12", 88),
      Load("r13", 96),
      Load("r14", 104),
      Load("r15", 112),
      AddRsp(stack_size),
      Load("rcx", 8 * 1),
      Load("rdx", 8 * 2),
      Call("rax"),
      Ret>>

EmitResolveFunctionThunk ==
  LET stack_size == THUNK_STACK_SIZE IN
    <<Store(8 * 2, "rdx"),
      Store(8 * 1, "rcx"),
      SubRsp(stack_size),
      Store(48, "rbx"),
      Store(56, "rcx"),
      Store(64, "rbp"),
      Store(72, "rsi"),
      Store(80, "rdi"),
      Store(88, "r12"),
      Store(96, "r13"),
      Store(104, "r14"),
      Store(112, "r15"),
      Mov("rdx", "rbx"),
      MovImm("rax", ResolveFunction),
      Call("rax"),
      Load("rbx", 48),
      Load("rcx", 56),
      Load("rbp", 64),
      Load("rsi", 72),
      Load("rdi", 80),
      Load("r12", 88),
      Load("r13", 96),
      Load("r14", 104),
      Load("r15", 112),
      AddRsp(stack_size),
      Load("rcx", 8 * 1),
      Load("rdx", 8 * 2),
      Jmp("rax")>>

(* The processor running a thunk. A machine is                              *)
(*   regs    register -> value (the sixteen general-purpose registers and   *)
(*           xmm6..xmm15)                                                   *)
(*   stack   address of a 64-bit stack slot -> value                        *)
(*   level   0 in the thunk that was entered first, 1 in a thunk entered    *)
(*           from its target                                                *)
(*   trace   what the thunks did, in order: the stores, loads, calls and    *)
(*           the final ret or jmp, each as [level, op, reg, addr, rsp,      *)
(*           regs]: addr is the slot of a store or load and the target of   *)
(*           a call, jmp or ret; rsp is the stack pointer before the        *)
(*           instruction; regs are the registers at a call, jmp or ret      *)

XmmNames == <<"xmm6", "xmm7", "xmm8", "xmm9", "xmm10", "xmm11", "xmm12",
              "xmm13", "xmm14", "xmm15">>
Xmms == {XmmNames[i] : i \in 1 .. Len(XmmNames)}
RegNames == GprNames \o XmmNames
MachineRegs == Gprs \cup Xmms
RegIndex(r) == CHOOSE i \in 1 .. Len(RegNames) : RegNames[i] = r

Event(level, op, reg, addr, rsp, regs) ==
  [level |-> level, op |-> op, reg |-> reg, addr |-> addr, rsp |-> rsp, regs |-> regs]

\* one instruction other than call, jmp and ret
ExecInstr(st, ins) ==
  LET rsp == st.regs["rsp"] IN
  CASE ins.op = "store" ->
         [st EXCEPT !.stack[rsp + ins.imm] = st.regs[ins.reg],
                    !.trace = Append(@, Event(st.level, "store", ins.reg, rsp + ins.imm, rsp, <<>>))]
    [] ins.op = "load" ->
         [st EXCEPT !.regs[ins.reg] = st.stack[rsp + ins.imm],
                    !.trace = Append(@, Event(st.level, "load", ins.reg, rsp + ins.imm, rsp, <<>>))]
    [] ins.op = "mov" -> [st EXCEPT !.regs[ins.reg] = st.regs[ins.reg2]]
    [] ins.op = "movimm" -> [st EXCEPT !.regs[ins.reg] = ins.imm]
    [] ins.op = "sub" -> [st EXCEPT !.regs["rsp"] = rsp - ins.imm]
    [] ins.op = "add" -> [st EXCEPT !.regs["rsp"] = rsp + ins.imm]

(* The code a thunk calls. env says what it does before it returns:         *)
(*   clobber        the registers it overwrites: "none"; "volatile", the    *)
(*                  registers a callee may change; "all", every register    *)
(*                  but rsp (translated guest code uses them all)           *)
(*   shadow         it stores into the four home slots above its return     *)
(*                  address                                                 *)
(*   ret            the value it returns in rax                             *)
(*   nested         it calls a host function through the guest-to-host      *)
(*                  thunk, and inner_clobber is what that function          *)
(*                  overwrites                                              *)
(* It returns with the stack balanced.                                      *)

\* rax, rcx, rdx, r8..r11
VolatileGprs == {"rax", "rcx", "rdx", "r8", "r9", "r10", "r11"}
ClobberRegs(kind) ==
  CASE kind = "none" -> {}
    [] kind = "volatile" -> VolatileGprs
    [] kind = "all" -> MachineRegs \ {"rsp"}

\* the value an overwritten register holds
Junk(r) == 36864 + RegIndex(r)

Clobber(st, kind) ==
  [st EXCEPT !.regs = [r \in MachineRegs |->
                         IF r \in ClobberRegs(kind) THEN Junk(r) ELSE st.regs[r]]]

WriteShadow(st) ==
  LET rsp == st.regs["rsp"] IN
  [st EXCEPT !.stack = [a \in DOMAIN st.stack |->
                          IF a \in {rsp + 8, rsp + 16, rsp + 24, rsp + 32}
                          THEN 39321 ELSE st.stack[a]]]

\* the stack frame of a translated guest function
GUEST_STACK_SIZE == 104

RECURSIVE Run(_, _, _, _)
RECURSIVE CallGuestToHost(_, _)
RECURSIVE TargetBody(_, _)

\* the instructions of prog from the i-th on, up to its ret or jmp (the first
\* case never applies: it has the machine evaluated before the next step)
Run(prog, i, st, env) ==
  LET ins == prog[i]
      rsp == st.regs["rsp"]
  IN CASE st.level < 0 -> st
       [] ins.op = "call" ->
            LET target == st.regs[ins.reg]
                called == [st EXCEPT !.regs["rsp"] = rsp - 8,
                                     !.stack[rsp - 8] = 20480 + i,
                                     !.trace = Append(@, Event(st.level, "call", ins.reg,
                                                               target, rsp, st.regs))]
                returned == TargetBody(called, env)
            IN Run(prog, i + 1, [returned EXCEPT !.regs["rsp"] = @ + 8], env)
       [] ins.op = "ret" ->
            [st EXCEPT !.regs["rsp"] = rsp + 8,
                       !.trace = Append(@, Event(st.level, "ret", "none", st.stack[rsp],
                                                 rsp, st.regs))]
       [] ins.op = "jmp" ->
            [st EXCEPT !.trace = Append(@, Event(st.level, "jmp", ins.reg, st.regs[ins.reg],
                                                 rsp, st.regs))]
       [] OTHER -> Run(prog, i + 1, ExecInstr(st, ins), env)

\* translated guest code calling a host function: context, function and
\* three arguments in rcx, rdx, r8, r9, r10, then the guest-to-host thunk
CallGuestToHost(st, env) ==
  LET rsp == st.regs["rsp"] - GUEST_STACK_SIZE
      args == [r \in MachineRegs |->
                 CASE r = "rsp" -> rsp - 8
                   [] r = "rcx" -> 28672
                   [] r = "rdx" -> 28673
                   [] r = "r8" -> 28674
                   [] r = "r9" -> 28675
                   [] r = "r10" -> 28676
                   [] OTHER -> st.regs[r]]
      entered == [st EXCEPT !.regs = args, !.stack[rsp - 8] = 20480, !.level = @ + 1]
      host == [clobber |-> env.inner_clobber, shadow |-> TRUE, ret |-> 28677,
               nested |-> FALSE, inner_clobber |-> "none"]
      left == Run(EmitGuestToHostThunk, 1, entered, host)
  IN [left EXCEPT !.regs["rsp"] = @ + GUEST_STACK_SIZE, !.level = st.level]

TargetBody(st, env) ==
  LET s1 == IF env.shadow THEN WriteShadow(st) ELSE st
      s2 == Clobber(s1, env.clobber)
      s3 == IF env.nested THEN CallGuestToHost(s2, env) ELSE s2
      s4 == Clobber(s3, env.clobber)
  IN [s4 EXCEPT !.regs["rax"] = env.ret]

(* A thunk entered once, with some registers and some target. *)

\* the stack pointer when the thunk is entered: [rsp] is the return address
EntryRsp == 4096
StackSlots == {EntryRsp - 8 * k : k \in -4 .. 48}
EntryBases == {256, 512}
EntryRegs(base) ==
  [r \in MachineRegs |-> IF r = "rsp" THEN EntryRsp ELSE base + RegIndex(r)]
TargetReturns == {32768, 32769}
TargetEnvs ==
  {e \in [clobber : {"none", "volatile", "all"}, shadow : BOOLEAN, ret : TargetReturns,
          nested : BOOLEAN, inner_clobber : {"none", "volatile", "all"}] :
     e.nested <=> e.inner_clobber # "none"}
Thunks == {"HostToGuest", "GuestToHost", "ResolveFunction"}
ThunkInputs ==
  {in \in [thunk : Thunks, regs : {EntryRegs(b) : b \in EntryBases}, env : TargetEnvs] :
     in.env.nested => in.thunk = "HostToGuest"}

ThunkCode(thunk) ==
  CASE thunk = "HostToGuest" -> EmitHostToGuestThunk
    [] thunk = "GuestToHost" -> EmitGuestToHostThunk
    [] thunk = "ResolveFunction" -> EmitResolveFunctionThunk

EntryMachine(regs) ==
  [regs |-> regs,
   stack |-> [a \in StackSlots |-> IF a = EntryRsp THEN 16384 ELSE 0],
   level |-> 0, trace |-> <<>>]

EnterThunk ==
  /\ ~thunk_out.done
  /\ thunk_in.thunk \in Thunks
  /\ LET left == Run(ThunkCode(thunk_in.thunk), 1, EntryMachine(thunk_in.regs), thunk_in.env)
     IN thunk_out' = [done |-> TRUE, regs |-> left.regs, trace |-> left.trace]
  /\ UNCHANGED <<mem, backend_data, fatal, hist, writes, cb, stepVars, life, thunk_in, race, pipe>>

----------------------------------------------------------------------------
(* Pipeline cache (vulkan/pipeline_cache.cc). The cache object is           *)
(*   asserts                    assertions are compiled in (and fatal)      *)
(*   fatal                      an assertion failed                         *)
(*   hash_state_                what was fed to XXH64_update since the last *)
(*                              XXH64_reset, in order                       *)
(*   update_*_regs_             the shadow copies the Update functions keep *)
(*   update_shader_stages_info_, update_vertex_input_state_info_,           *)
(*   update_input_assembly_state_info_   the create-info the Update         *)
(*                              functions fill in                           *)
(*   cached_pipelines_          set of [key, pipeline]                      *)
(*   current_pipeline_          the pipeline of the last call, or null      *)
(*   status                     what the last Update function returned      *)
(* and, for the properties only,                                            *)
(*   calls                      ConfigurePipeline calls so far              *)
(*   last                       arguments, result and bound pipeline of the *)
(*                              last ConfigurePipeline call                 *)
(* A pipeline is what vkCreateGraphicsPipelines was given: the shader       *)
(* stages, the vertex shader whose bindings describe the vertex input, and  *)
(* the topology. XXH64 is taken to be free of collisions: a digest is the   *)
(* sequence that was hashed.                                                *)

\* most calls of ConfigurePipeline on one cache
MaxConfigureCalls == 4

VertexShaders == {"vs1", "vs2"}
PixelShaders == {"ps1", "ps2"}
\* a type drawn directly, a type drawn through a geometry shader, and a type
\* with no topology
PrimitiveTypes == {"kTriangleList", "kPointList", "kQuadStrip"}
\* the value every shadowed register has in the register file
RegisterValue == 65535

NullPipeline == [null |-> TRUE, stages |-> <<>>, vertex_input |-> "null", topology |-> "none"]

NewPipelineCache(asserts) ==
  [kind |-> "pipe", asserts |-> asserts, fatal |-> FALSE,
   hash_state_ |-> <<>>,
   update_shader_stages_regs_ |->
     [pa_su_sc_mode_cntl |-> 0, vertex_shader |-> "null", pixel_shader |-> "null",
      primitive_type |-> "none"],
   update_shader_stages_info_ |-> <<>>,
   update_vertex_input_state_regs_ |-> [vertex_shader |-> "null"],
   update_vertex_input_state_info_ |-> "null",
   update_input_assembly_state_regs_ |->
     [primitive_type |-> "none", pa_su_sc_mode_cntl |-> 0,
      multi_prim_ib_reset_index |-> 0],
   update_input_assembly_state_info_ |-> "none",
   update_rasterization_state_regs_ |-> 0,
   update_depth_stencil_state_regs_ |-> 0,
   update_color_blend_state_regs_ |-> 0,
   cached_pipelines_ |-> {},
   current_pipeline_ |-> NullPipeline,
   status |-> "kCompatible",
   calls |-> 0,
   last |-> [vertex_shader |-> "null", pixel_shader |-> "null",
             primitive_type |-> "none", ret |-> FALSE, bound |-> NullPipeline]]

\* a failed assertion: fatal where assertions are compiled in, nothing elsewhere
AssertFails(p) == [p EXCEPT !.fatal = p.asserts]

\* PipelineCache::GetGeometryShader, with the shader modules by name
GetGeometryShader(primitive_type) ==
  CASE primitive_type = "kTriangleList" -> [module |-> "null", asserted |-> FALSE]
    [] primitive_type = "kPointList" -> [module |-> "point_list", asserted |-> FALSE]
    [] OTHER -> [module |-> "null", asserted |-> TRUE]

\* PipelineCache::UpdateShaderStages
UpdateShaderStages(p, vertex_shader, pixel_shader, primitive_type) ==
  LET regs == p.update_shader_stages_regs_
      \* SetShadowRegister(&regs.pa_su_sc_mode_cntl, ...)
      shadowed == [regs EXCEPT !.pa_su_sc_mode_cntl = RegisterValue]
      dirty == \/ regs.pa_su_sc_mode_cntl # RegisterValue
               \/ regs.vertex_shader # vertex_shader
               \/ regs.pixel_shader # pixel_shader
               \/ regs.primitive_type # primitive_type
      \* XXH64_update(&hash_state_, &regs, sizeof(regs))
      hashed == [p EXCEPT !.hash_state_ = Append(@, shadowed),
                          !.update_shader_stages_regs_ = shadowed]
      geometry_shader == GetGeometryShader(primitive_type)
      filled == [hashed EXCEPT
                   !.update_shader_stages_regs_ =
                      [shadowed EXCEPT !.vertex_shader = vertex_shader,
                                       !.pixel_shader = pixel_shader,
                                       !.primitive_type = primitive_type],
                   !.update_shader_stages_info_ =
                      IF geometry_shader.module # "null"
                      THEN <<vertex_shader, geometry_shader.module, pixel_shader>>
                      ELSE <<vertex_shader, pixel_shader>>,
                   !.status = "kMismatch"]
  IN IF ~dirty THEN [hashed EXCEPT !.status = "kCompatible"]
     ELSE IF geometry_shader.asserted THEN AssertFails(filled)
     ELSE filled

\* PipelineCache::UpdateVertexInputState
UpdateVertexInputState(p, vertex_shader) ==
  LET regs == p.update_vertex_input_state_regs_
      dirty == vertex_shader # regs.vertex_shader
      hashed == [p EXCEPT !.hash_state_ = Append(@, regs)]
  IN IF ~dirty THEN [hashed EXCEPT !.status = "kCompatible"]
     ELSE [hashed EXCEPT !.update_vertex_input_state_regs_.vertex_shader = vertex_shader,
                         !.update_vertex_input_state_info_ = vertex_shader,
                         !.status = "kMismatch"]

\* the switch of UpdateInputAssemblyState
Topology(primitive_type) ==
  CASE primitive_type = "kPointList" -> "VK_PRIMITIVE_TOPOLOGY_POINT_LIST"
    [] primitive_type = "kTriangleList" -> "VK_PRIMITIVE_TOPOLOGY_TRIANGLE_LIST"
    [] OTHER -> "none"

\* PipelineCache::UpdateInputAssemblyState
UpdateInputAssemblyState(p, primitive_type) ==
  LET regs == p.update_input_assembly_state_regs_
      shadowed == [regs EXCEPT !.pa_su_sc_mode_cntl = RegisterValue,
                               !.multi_prim_ib_reset_index = RegisterValue]
      dirty == \/ primitive_type # regs.primitive_type
               \/ regs.pa_su_sc_mode_cntl # RegisterValue
               \/ regs.multi_prim_ib_reset_index # RegisterValue
      hashed == [p EXCEPT !.hash_state_ = Append(@, shadowed),
                          !.update_input_assembly_state_regs_ = shadowed]
      assigned == [hashed EXCEPT
                     !.update_input_assembly_state_regs_.primitive_type = primitive_type]
  IN IF ~dirty THEN [hashed EXCEPT !.status = "kCompatible"]
     ELSE IF Topology(primitive_type) = "none"
     THEN \* assert_unhandled_case(primitive_type); return UpdateStatus::kError;
          AssertFails([assigned EXCEPT !.status = "kError"])
     ELSE [assigned EXCEPT
             !.update_input_assembly_state_info_ = Topology(primitive_type),
             !.status = "kMismatch"]

\* PipelineCache::UpdateViewportState, UpdateMultisampleState
UpdateViewportState(p) == [p EXCEPT !.status = "kCompatible"]
UpdateMultisampleState(p) == [p EXCEPT !.status = "kCompatible"]

\* PipelineCache::UpdateRasterizationState
UpdateRasterizationState(p, primitive_type) ==
  LET dirty == p.update_rasterization_state_regs_ # RegisterValue
      hashed == [p EXCEPT !.hash_state_ = Append(@, RegisterValue),
                          !.update_rasterization_state_regs_ = RegisterValue]
  IN [hashed EXCEPT !.status = IF dirty THEN "kMismatch" ELSE "kCompatible"]

\* PipelineCache::UpdateDepthStencilState
UpdateDepthStencilState(p) ==
  LET dirty == p.update_depth_stencil_state_regs_ # RegisterValue
      hashed == [p EXCEPT !.hash_state_ = Append(@, RegisterValue),
                          !.update_depth_stencil_state_regs_ = RegisterValue]
  IN [hashed EXCEPT !.status = IF dirty THEN "kMismatch" ELSE "kCompatible"]

\* PipelineCache::UpdateColorBlendState
UpdateColorBlendState(p) ==
  LET dirty == p.update_color_blend_state_regs_ # RegisterValue
      hashed == [p EXCEPT !.hash_state_ = Append(@, RegisterValue),
                          !.update_color_blend_state_regs_ = RegisterValue]
  IN [hashed EXCEPT !.status = IF dirty THEN "kMismatch" ELSE "kCompatible"]

\* PipelineCache::UpdateState: S1..S8 hold the cache after each Update function
\* with the mismatch flag, a set of the one outcome so that every Update
\* function is applied once; CHECK_UPDATE_STATUS returns at the first kError
\* (a fatal assertion ends the call as well)
UpdateState(p, vertex_shader, pixel_shader, primitive_type) ==
  LET Stopped(s) == s.p.fatal \/ s.p.status = "kError"
      Then(mismatch, next) ==
        [p |-> next, mismatch |-> mismatch \/ next.status = "kMismatch"]
      S0 == {[p |-> [p EXCEPT !.hash_state_ = <<>>], mismatch |-> FALSE]}
      S1 == {Then(s.mismatch,
                  UpdateShaderStages(s.p, vertex_shader, pixel_shader, primitive_type)) :
               s \in S0}
      S2 == {IF Stopped(s) THEN s
             ELSE Then(s.mismatch, UpdateVertexInputState(s.p, vertex_shader)) : s \in S1}
      S3 == {IF Stopped(s) THEN s
             ELSE Then(s.mismatch, UpdateInputAssemblyState(s.p, primitive_type)) :
               s \in S2}
      S4 == {IF Stopped(s) THEN s
             ELSE Then(s.mismatch, UpdateViewportState(s.p)) : s \in S3}
      S5 == {IF Stopped(s) THEN s
             ELSE Then(s.mismatch, UpdateRasterizationState(s.p, primitive_type)) :
               s \in S4}
      S6 == {IF Stopped(s) THEN s
             ELSE Then(s.mismatch, UpdateMultisampleState(s.p)) : s \in S5}
      S7 == {IF Stopped(s) THEN s
             ELSE Then(s.mismatch, UpdateDepthStencilState(s.p)) : s \in S6}
      S8 == {IF Stopped(s) THEN s
             ELSE Then(s.mismatch, UpdateColorBlendState(s.p)) : s \in S7}
      Result(s) ==
        IF Stopped(s) THEN s.p
        ELSE [s.p EXCEPT !.status = IF s.mismatch THEN "kMismatch" ELSE "kCompatible"]
  IN CHOOSE r \in {Result(s) : s \in S8} : TRUE

\* PipelineCache::GetPipeline: [p, pipeline]. create_ok: vkCreateGraphicsPipelines
\* produced a pipeline
GetPipeline(p, hash_key, create_ok) ==
  LET found == {e \in p.cached_pipelines_ : e.key = hash_key}
      created == IF create_ok
                 THEN [null |-> FALSE,
                       stages |-> p.update_shader_stages_info_,
                       vertex_input |-> p.update_vertex_input_state_info_,
                       topology |-> p.update_input_assembly_state_info_]
                 ELSE NullPipeline
  IN IF found # {}
     THEN [p |-> p, pipeline |-> (CHOOSE e \in found : TRUE).pipeline]
     ELSE [p |-> [p EXCEPT !.cached_pipelines_ =
                              @ \cup {[key |-> hash_key, pipeline |-> created]}],
           pipeline |-> created]

\* PipelineCache::ConfigurePipeline: the cache with last.ret and last.bound
\* set. AfterUpdate is the rest of the function once UpdateState returned u.
\* SetDynamicState has no path that returns false
ConfigurePipeline(p, vertex_shader, pixel_shader, primitive_type, create_ok) ==
  LET called == [p EXCEPT !.calls = @ + 1,
                          !.last = [vertex_shader |-> vertex_shader,
                                    pixel_shader |-> pixel_shader,
                                    primitive_type |-> primitive_type,
                                    ret |-> FALSE, bound |-> NullPipeline]]
      Bind(q, pl) == [q EXCEPT !.last.ret = TRUE, !.last.bound = pl]
      \* the lookup, for the state `reset` the switch left
      Lookup(reset) ==
        CHOOSE r \in {IF got.pipeline.null
                      THEN [got.p EXCEPT !.current_pipeline_ = got.pipeline]
                      ELSE Bind([got.p EXCEPT !.current_pipeline_ = got.pipeline],
                                got.pipeline) :
                        got \in {GetPipeline(reset, reset.hash_state_, create_ok)}} : TRUE
      AfterUpdate(u) ==
        LET \* what the switch leaves in pipeline and current_pipeline_
            pipeline == IF u.status = "kCompatible" THEN u.current_pipeline_
                        ELSE NullPipeline
            reset == IF u.status = "kCompatible" THEN u
                     ELSE [u EXCEPT !.current_pipeline_ = NullPipeline]
        IN IF u.fatal THEN u
           ELSE IF u.status = "kError" THEN reset
           ELSE IF ~pipeline.null THEN Bind(reset, pipeline)
           ELSE Lookup(reset)
  IN CHOOSE r \in {AfterUpdate(u) :
                     u \in {UpdateState(called, vertex_shader, pixel_shader,
                                        primitive_type)}} : TRUE

----------------------------------------------------------------------------
(* Actions of the breakpoint patcher and the dispatcher. *)

NoCb == [ex |-> [code |-> "none", pc |-> 0, thread_context |-> "none"],
         handler_ret |-> FALSE, ret |-> FALSE, calls |-> <<>>,
         ex_out |-> [code |-> "none", pc |-> 0, thread_context |-> "none"],
         mem0 |-> <<>>, data0 |-> <<>>]
NoStepIn == [insn |-> "none"]
NoStepOut == [done |-> FALSE, pc |-> 0, fatal |-> FALSE]
NoThunkIn == [thunk |-> "none"]
NoThunkOut == [done |-> FALSE, regs |-> <<>>, trace |-> <<>>]
NoRace == [kind |-> "none"]
NoPipe == [kind |-> "none"]

\* the host addresses one ForEachHostAddress call resolves to, in call order
HostAddrLists ==
  {s \in UNION {[1 .. n -> HostAddr] : n \in 1 .. MaxHostAddrs} :
     \A i \in 1 .. Len(s) : \A j \in 1 .. Len(s) : i # j => s[i] # s[j]}

RECURSIVE TotalRecords(_, _)
TotalRecords(data, bs) ==
  IF bs = {} THEN 0
  ELSE LET b == CHOOSE x \in bs : TRUE
       IN Len(data[b]) + TotalRecords(data, bs \ {b})

Install(b, addrs) ==
  /\ ~fatal
  /\ TotalRecords(backend_data, Breakpoints) + Len(addrs) <= MaxRecords
  /\ LET st == InstallBreakpoint(mem, backend_data[b], addrs) IN
     /\ mem' = st.mem
     /\ backend_data' = [backend_data EXCEPT ![b] = st.data]
     /\ fatal' = st.fatal
  /\ cb' = NoCb
  /\ UNCHANGED <<writes, stepVars, life, thunkVars, race, pipe>>

Uninstall(b) ==
  /\ ~fatal
  /\ LET st == UninstallBreakpoint(mem, backend_data[b]) IN
     /\ mem' = st.mem
     /\ backend_data' = [backend_data EXCEPT ![b] = st.data]
     /\ fatal' = st.fatal
  /\ cb' = NoCb
  /\ UNCHANGED <<writes, stepVars, life, thunkVars, race, pipe>>

AddressTypes == {"kGuest", "kHost"}

InstallFn(b, address_type, is_guest, host_address) ==
  /\ ~fatal
  /\ TotalRecords(backend_data, Breakpoints) + 1 <= MaxRecords
  /\ LET st == InstallBreakpointFn(mem, backend_data[b], address_type, is_guest,
                                    host_address) IN
     /\ mem' = st.mem
     /\ backend_data' = [backend_data EXCEPT ![b] = st.data]
     /\ fatal' = st.fatal
  /\ cb' = NoCb
  /\ UNCHANGED <<writes, stepVars, life, thunkVars, race, pipe>>

\* the resume addresses the breakpoint-hit handler may store into the record
\* it was passed: the faulting pc itself, or the instruction after the trap
ResumePcs(ex) == {ex.pc, ex.pc + 2}

\* one exception delivered to ExceptionCallbackThunk. cb keeps the record as
\* delivered (ex), what the callback returned and called, the record after
\* the callback and the handler it called (ex_out), and code memory and the
\* breakpoint records as they were when the callback began (mem0, data0)
Exception(ex, handler_ret, handler_pc) ==
  /\ ~fatal
  /\ LET r == ExceptionCallback(mem, ex, handler_ret) IN
     /\ mem' = r.mem
     /\ cb' = [ex |-> ex, handler_ret |-> handler_ret, ret |-> r.ret,
               calls |-> r.calls,
               ex_out |-> IF r.calls = <<>> THEN r.ex
                          ELSE [r.calls[1] EXCEPT !.pc = handler_pc],
               mem0 |-> mem, data0 |-> backend_data]
  /\ UNCHANGED <<backend_data, fatal, hist, writes>>
  /\ UNCHANGED <<stepVars, life, thunkVars, race, pipe>>

\* the bytes of code memory some breakpoint has patched and recorded
Patched(data) ==
  UNION {UNION {{data[b][i][1], data[b][i][1] + 1} : i \in 1 .. Len(data[b])} :
           b \in Breakpoints}

\* another writer of code memory (the translator, a debugger) overwrites a
\* byte of an installed breakpoint, once
ExternalWrite(a, v) ==
  /\ ~fatal
  /\ a \in Patched(backend_data)
  /\ ~writes
  /\ mem[a] # v
  /\ mem' = [mem EXCEPT ![a] = v]
  /\ writes' = TRUE
  /\ cb' = NoCb
  /\ UNCHANGED <<backend_data, fatal>>
  /\ UNCHANGED <<stepVars, life, thunkVars, race, pipe>>

(* History of the patcher calls, kept for the properties:                  *)
(*   op          "Install", "Uninstall", "InstallUninstall" (an Uninstall  *)
(*               of bp right after its Install), "UninstallUninstall" (an  *)
(*               Uninstall of bp right after an Uninstall of bp), "Write"  *)
(*   bp, addrs   the breakpoint and the addresses its Install resolved to  *)
(*   mem0, data0 code memory and bp's records when the last call began     *)
(*   mem_install code memory when the Install of an "InstallUninstall"     *)
(*               began                                                     *)
(*   again       the Install came right after an Install and Uninstall of  *)
(*               the same breakpoint, the earlier Install having started   *)
(*               with no record                                            *)
(*   mem_first   if again, code memory when that earlier Install began     *)
NoHist == [op |-> "none", bp |-> "none", addrs |-> <<>>, mem0 |-> mem,
           data0 |-> <<>>, mem_install |-> mem, again |-> FALSE, mem_first |-> mem]

HistInstall(b, addrs) ==
  LET again == /\ hist.op = "InstallUninstall" /\ hist.bp = b /\ ~fatal
               /\ Len(hist.data0) = Len(hist.addrs)
  IN hist' = [op |-> "Install", bp |-> b, addrs |-> addrs, mem0 |-> mem,
              data0 |-> backend_data[b], mem_install |-> mem,
              again |-> again,
              mem_first |-> IF again THEN hist.mem_install ELSE mem]

HistUninstall(b) ==
  LET afterInstall == hist.op = "Install" /\ hist.bp = b
      afterUninstall ==
        hist.op \in {"Uninstall", "InstallUninstall", "UninstallUninstall"} /\ hist.bp = b
  IN hist' = [op |-> IF afterInstall THEN "InstallUninstall"
                     ELSE IF afterUninstall THEN "UninstallUninstall"
                     ELSE "Uninstall",
              bp |-> b,
              addrs |-> IF afterInstall THEN hist.addrs ELSE <<>>,
              mem0 |-> mem,
              data0 |-> backend_data[b],
              mem_install |-> IF afterInstall THEN hist.mem_install ELSE mem,
              again |-> IF afterInstall THEN hist.again ELSE FALSE,
              mem_first |-> IF afterInstall THEN hist.mem_first ELSE mem]

\* an InstallBreakpoint(breakpoint, fn) call: op "InstallFn", with its inputs
HistInstallFn(b, address_type, is_guest, host_address) ==
  hist' = [op |-> "InstallFn", bp |-> b, addrs |-> <<host_address>>, mem0 |-> mem,
           data0 |-> backend_data[b], mem_install |-> mem, again |-> FALSE,
           mem_first |-> mem, address_type |-> address_type, is_guest |-> is_guest]

HistWrite(a) ==
  hist' = [op |-> "Write", bp |-> "none", addrs |-> <<a>>, mem0 |-> mem,
           data0 |-> <<>>, mem_install |-> mem, again |-> FALSE, mem_first |-> mem]

\* code memory as the translator left it: ordinary bytes, of which at most
\* one happens to equal a byte of the trap signature
InitMem ==
  {[a \in CodeAddr |-> CodeByte(a)]} \cup
  {[a \in CodeAddr |-> IF a = x THEN v ELSE CodeByte(a)] : x \in CodeAddr, v \in TrapBytes}

InitBp ==
  /\ backend_data = [b \in Breakpoints |-> <<>>]
  /\ fatal = FALSE
  /\ hist = NoHist
  /\ writes = FALSE
  /\ cb = NoCb
  /\ life = NoLife
  /\ thunk_in = NoThunkIn
  /\ thunk_out = NoThunkOut
  /\ race = NoRace
  /\ pipe = NoPipe

Init ==
  /\ mem \in InitMem
  /\ InitBp
  /\ step_in = NoStepIn
  /\ step_out = NoStepOut

\* code memory holding ordinary code only
InitOrdinary ==
  /\ mem = [a \in CodeAddr |-> CodeByte(a)]
  /\ InitBp
  /\ step_in = NoStepIn
  /\ step_out = NoStepOut

InstallStep ==
  \E b \in Breakpoints, addrs \in HostAddrLists : Install(b, addrs) /\ HistInstall(b, addrs)
UninstallStep == \E b \in Breakpoints : Uninstall(b) /\ HistUninstall(b)
ExternalWriteStep ==
  \E a \in CodeAddr, v \in ForeignBytes : ExternalWrite(a, v) /\ HistWrite(a)

Next ==
  \/ InstallStep
  \/ UninstallStep

Spec == Init /\ [][Next]_vars

NextWriter ==
  \/ InstallStep
  \/ UninstallStep
  \/ ExternalWriteStep

SpecWriter == InitOrdinary /\ [][NextWriter]_vars

InstallFnStep ==
  \E b \in Breakpoints, address_type \in AddressTypes, is_guest \in BOOLEAN,
     host_address \in HostAddr \cup {NoHostAddress} :
    InstallFn(b, address_type, is_guest, host_address)
      /\ HistInstallFn(b, address_type, is_guest, host_address)

NextGuest ==
  \/ InstallFnStep
  \/ UninstallStep

SpecGuest == Init /\ [][NextGuest]_vars

(* Every breakpoint installed once, on addresses no other record holds, and *)
(* then every breakpoint uninstalled, in any order. Here hist is            *)
(*   op           "all"                                                     *)
(*   mem_init     code memory before the first Install                      *)
(*   installed    the breakpoints installed so far                          *)
(*   uninstalled  the breakpoints uninstalled so far                        *)

RecordedAddrs(data) ==
  UNION {{data[b][i][1] : i \in 1 .. Len(data[b])} : b \in Breakpoints}

InstallOne(b, addrs) ==
  /\ b \notin hist.installed
  /\ \A i \in 1 .. Len(addrs) : addrs[i] \notin RecordedAddrs(backend_data)
  /\ Install(b, addrs)
  /\ hist' = [hist EXCEPT !.installed = @ \cup {b}]

UninstallOne(b) ==
  /\ hist.installed = Breakpoints
  /\ b \notin hist.uninstalled
  /\ Uninstall(b)
  /\ hist' = [hist EXCEPT !.uninstalled = @ \cup {b}]

InitAll ==
  /\ mem \in InitMem
  /\ backend_data = [b \in Breakpoints |-> <<>>]
  /\ fatal = FALSE
  /\ hist = [op |-> "all", mem_init |-> mem, installed |-> {}, uninstalled |-> {}]
  /\ writes = FALSE
  /\ cb = NoCb
  /\ life = NoLife
  /\ step_in = NoStepIn
  /\ step_out = NoStepOut
  /\ thunk_in = NoThunkIn
  /\ thunk_out = NoThunkOut
  /\ race = NoRace
  /\ pipe = NoPipe

InstallOneStep == \E b \in Breakpoints, addrs \in HostAddrLists : InstallOne(b, addrs)
UninstallOneStep == \E b \in Breakpoints : UninstallOne(b)

NextAll ==
  \/ InstallOneStep
  \/ UninstallOneStep

SpecAll == InitAll /\ [][NextAll]_vars

(* Two threads in InstallBreakpoint at once, each for its own breakpoint,   *)
(* both breakpoints resolving to the same host address. The code takes no   *)
(* lock; a thread's call is its accesses to shared state, one step each:    *)
(*   "load"    load_and_swap of the bytes and the assertion on them         *)
(*   "store"   store_and_swap of the trap signature                         *)
(*   "record"  emplace_back on the breakpoint's records                     *)
(* race is                                                                  *)
(*   kind            "install"                                              *)
(*   host_address    the address both breakpoints resolve to                *)
(*   at              thread -> the step it is about to take, or "done",     *)
(*                   "failed"                                               *)
(*   original_bytes  thread -> the local variable of that name              *)
(*   stores          the stores of the trap signature made so far           *)
(*   mem_init        code memory before the calls                           *)

Threads == {"t1", "t2"}
ThreadBreakpoint(t) == IF t = "t1" THEN "bp1" ELSE "bp2"

RaceLoad(t) ==
  /\ ~fatal
  /\ race.at[t] = "load"
  /\ LET original_bytes == load_and_swap(mem, race.host_address) IN
     /\ fatal' = ~assert_true(original_bytes # kTrapSignature)
     /\ race' = [race EXCEPT !.original_bytes[t] = original_bytes,
                             !.at[t] = IF fatal' THEN "failed" ELSE "store"]
  /\ UNCHANGED <<mem, backend_data, hist, writes, cb, stepVars, life, thunkVars, pipe>>

RaceStore(t) ==
  /\ ~fatal
  /\ race.at[t] = "store"
  /\ mem' = store_and_swap(mem, race.host_address, kTrapSignature)
  /\ race' = [race EXCEPT !.at[t] = "record", !.stores = @ + 1]
  /\ UNCHANGED <<backend_data, fatal, hist, writes, cb, stepVars, life, thunkVars, pipe>>

RaceRecord(t) ==
  /\ ~fatal
  /\ race.at[t] = "record"
  /\ backend_data' = [backend_data EXCEPT ![ThreadBreakpoint(t)] =
                        Append(@, <<race.host_address, race.original_bytes[t]>>)]
  /\ race' = [race EXCEPT !.at[t] = "done"]
  /\ UNCHANGED <<mem, fatal, hist, writes, cb, stepVars, life, thunkVars, pipe>>

\* UninstallBreakpoint once both InstallBreakpoint calls have returned
RaceUninstall(b) ==
  /\ \A t \in Threads : race.at[t] = "done"
  /\ backend_data[b] # <<>>
  /\ Uninstall(b)
  /\ UNCHANGED hist

InitRaceInstall ==
  /\ mem \in InitMem
  /\ backend_data = [b \in Breakpoints |-> <<>>]
  /\ fatal = FALSE
  /\ hist = NoHist
  /\ writes = FALSE
  /\ cb = NoCb
  /\ life = NoLife
  /\ step_in = NoStepIn
  /\ step_out = NoStepOut
  /\ thunk_in = NoThunkIn
  /\ thunk_out = NoThunkOut
  /\ pipe = NoPipe
  /\ \E a \in HostAddr :
       race = [kind |-> "install", host_address |-> a,
               at |-> [t \in Threads |-> "load"],
               original_bytes |-> [t \in Threads |-> 0],
               stores |-> 0, mem_init |-> mem]

RaceLoadStep == \E t \in Threads : RaceLoad(t)
RaceStoreStep == \E t \in Threads : RaceStore(t)
RaceRecordStep == \E t \in Threads : RaceRecord(t)
RaceUninstallStep == \E b \in Breakpoints : RaceUninstall(b)

NextRaceInstall ==
  \/ RaceLoadStep
  \/ RaceStoreStep
  \/ RaceRecordStep
  \/ RaceUninstallStep

SpecRaceInstall == InitRaceInstall /\ [][NextRaceInstall]_vars

(* One thread executing translated code that holds installed breakpoints,   *)
(* another thread in UninstallBreakpoint. Nothing stops the second thread    *)
(* between the trap and the dispatcher's read of the bytes. race is          *)
(*   kind   "trap"                                                           *)
(*   at     "running", "raised" (the processor raised the exception, the     *)
(*          dispatcher has not run yet), "dispatched"                        *)
(*   ex     the exception raised                                             *)
(*   ret    what ExceptionCallback returned                                  *)
(*   calls  the calls it made to Processor::OnThreadBreakpointHit            *)

NoException == [code |-> "none", pc |-> 0, thread_context |-> "none"]

\* the thread executes the trap signature of an installed breakpoint at a
TrapExecute(a) ==
  /\ ~fatal
  /\ race.at = "running"
  /\ a \in RecordedAddrs(backend_data)
  /\ load_and_swap(mem, a) = kTrapSignature
  /\ race' = [race EXCEPT !.at = "raised",
                          !.ex = [code |-> "kIllegalInstruction", pc |-> a,
                                  thread_context |-> "snapshot"]]
  /\ UNCHANGED <<mem, backend_data, fatal, hist, writes, cb, stepVars, life, thunkVars, pipe>>

TrapUninstall(b) ==
  /\ backend_data[b] # <<>>
  /\ Uninstall(b)
  /\ UNCHANGED hist

\* the exception reaches ExceptionCallbackThunk
TrapDispatch(handler_ret) ==
  /\ ~fatal
  /\ race.at = "raised"
  /\ LET r == ExceptionCallback(mem, race.ex, handler_ret) IN
     /\ mem' = r.mem
     /\ race' = [race EXCEPT !.at = "dispatched", !.ret = r.ret, !.calls = r.calls]
  /\ UNCHANGED <<backend_data, fatal, hist, writes, cb, stepVars, life, thunkVars, pipe>>

\* the breakpoints were installed one after the other, before the thread runs
InitTrap ==
  /\ \E addrs1 \in HostAddrLists, addrs2 \in HostAddrLists \cup {<<>>} :
       LET st1 == InstallBreakpoint([a \in CodeAddr |-> CodeByte(a)], <<>>, addrs1)
           st2 == InstallBreakpoint(st1.mem, <<>>, addrs2)
       IN /\ Len(addrs1) + Len(addrs2) <= MaxRecords
          /\ ~st1.fatal
          /\ ~st2.fatal
          /\ mem = st2.mem
          /\ backend_data = [b \in Breakpoints |-> IF b = "bp1" THEN st1.data ELSE st2.data]
  /\ fatal = FALSE
  /\ hist = NoHist
  /\ writes = FALSE
  /\ cb = NoCb
  /\ life = NoLife
  /\ step_in = NoStepIn
  /\ step_out = NoStepOut
  /\ thunk_in = NoThunkIn
  /\ thunk_out = NoThunkOut
  /\ pipe = NoPipe
  /\ race = [kind |-> "trap", at |-> "running", ex |-> NoException,
             ret |-> FALSE, calls |-> <<>>]

TrapExecuteStep == \E a \in HostAddr : TrapExecute(a)
TrapUninstallStep == \E b \in Breakpoints : TrapUninstall(b)
TrapDispatchStep == \E handler_ret \in BOOLEAN : TrapDispatch(handler_ret)

NextTrap ==
  \/ TrapExecuteStep
  \/ TrapUninstallStep
  \/ TrapDispatchStep

SpecTrap == InitTrap /\ [][NextTrap]_vars

InstallStepD ==
  \E b \in Breakpoints, addrs \in HostAddrLists : Install(b, addrs) /\ UNCHANGED hist
UninstallStepD == \E b \in Breakpoints : Uninstall(b) /\ UNCHANGED hist
ExceptionStep ==
  \E ex \in Exceptions, h \in BOOLEAN :
    \E handler_pc \in ResumePcs(ex) : Exception(ex, h, handler_pc)

NextDispatch ==
  \/ InstallStepD
  \/ UninstallStepD
  \/ ExceptionStep

SpecDispatch == InitOrdinary /\ [][NextDispatch]_vars

----------------------------------------------------------------------------
(* Life of one backend object. *)

Construct(cs_open_ok) ==
  /\ life.phase = "new"
  /\ life' = X64Backend(life, cs_open_ok)
  /\ UNCHANGED <<mem, backend_data, fatal, hist, writes, cb, stepVars, thunkVars, race, pipe>>

InitializeCall(base_ok, cache_ok, enable_haswell_instructions, cpu_movbe, thunk_low) ==
  /\ life.phase = "constructed"
  /\ ~life.fatal
  /\ life.initialize_calls < MaxInitializeCalls
  /\ life' = [Initialize(life, base_ok, cache_ok, enable_haswell_instructions,
                         cpu_movbe, thunk_low)
               EXCEPT !.args = [called |-> TRUE, base_ok |-> base_ok,
                                cache_ok |-> cache_ok],
                      !.entry = LifeCounters(life)]
  /\ UNCHANGED <<mem, backend_data, fatal, hist, writes, cb, stepVars, thunkVars, race, pipe>>

Destroy ==
  /\ life.phase = "constructed"
  /\ ~life.fatal
  /\ life' = Destructor(life)
  /\ UNCHANGED <<mem, backend_data, fatal, hist, writes, cb, stepVars, thunkVars, race, pipe>>

ConstructStep == \E cs_open_ok \in BOOLEAN : Construct(cs_open_ok)
InitializeStep ==
  \E base_ok \in BOOLEAN, cache_ok \in BOOLEAN, enable_haswell_instructions \in BOOLEAN,
     cpu_movbe \in BOOLEAN, thunk_low \in BOOLEAN :
    InitializeCall(base_ok, cache_ok, enable_haswell_instructions, cpu_movbe, thunk_low)
DestroyStep == Destroy

NextLife ==
  \/ ConstructStep
  \/ InitializeStep
  \/ DestroyStep

SpecLife == InitOrdinary /\ [][NextLife]_vars

----------------------------------------------------------------------------
(* Calls of ConfigurePipeline on one pipeline cache. *)

Configure(vertex_shader, pixel_shader, primitive_type, create_ok) ==
  /\ pipe.kind = "pipe"
  /\ ~pipe.fatal
  /\ pipe.calls < MaxConfigureCalls
  /\ pipe' = ConfigurePipeline(pipe, vertex_shader, pixel_shader, primitive_type,
                               create_ok)
  /\ UNCHANGED <<mem, backend_data, fatal, hist, writes, cb, stepVars, life, thunkVars, race>>

InitPipe ==
  /\ mem = [a \in CodeAddr |-> CodeByte(a)]
  /\ backend_data = [b \in Breakpoints |-> <<>>]
  /\ fatal = FALSE
  /\ hist = NoHist
  /\ writes = FALSE
  /\ cb = NoCb
  /\ life = NoLife
  /\ step_in = NoStepIn
  /\ step_out = NoStepOut
  /\ thunk_in = NoThunkIn
  /\ thunk_out = NoThunkOut
  /\ race = NoRace
  /\ \E asserts \in BOOLEAN : pipe = NewPipelineCache(asserts)

ConfigureStep ==
  \E vertex_shader \in VertexShaders, pixel_shader \in PixelShaders,
     primitive_type \in PrimitiveTypes, create_ok \in BOOLEAN :
    Configure(vertex_shader, pixel_shader, primitive_type, create_ok)

NextPipe == ConfigureStep

SpecPipe == InitPipe /\ [][NextPipe]_vars

----------------------------------------------------------------------------
(* One entry into one thunk. *)

InitThunk ==
  /\ mem = [a \in CodeAddr |-> CodeByte(a)]
  /\ backend_data = [b \in Breakpoints |-> <<>>]
  /\ fatal = FALSE
  /\ hist = NoHist
  /\ writes = FALSE
  /\ cb = NoCb
  /\ life = NoLife
  /\ step_in = NoStepIn
  /\ step_out = NoStepOut
  /\ thunk_in \in ThunkInputs
  /\ thunk_out = NoThunkOut
  /\ race = NoRace
  /\ pipe = NoPipe

NextThunk == EnterThunk

SpecThunk == InitThunk /\ [][NextThunk]_vars

----------------------------------------------------------------------------
(* Properties of the breakpoint patcher. *)

UninstallOps == {"Uninstall", "InstallUninstall", "UninstallUninstall"}

\* all recorded pairs of all breakpoints, as <<breakpoint, index>>
AllRecords == {<<b, i>> : b \in Breakpoints, i \in 1 .. MaxRecords}
Recorded == {r \in AllRecords : r[2] <= Len(backend_data[r[1]])}
RecordAddr(r) == backend_data[r[1]][r[2]][1]

C2_NeverDoublePatched ==
  /\ (hist.op = "Install" /\ load_and_swap(hist.mem0, hist.addrs[1]) = kTrapSignature) =>
       (fatal /\ mem = hist.mem0 /\ backend_data[hist.bp] = hist.data0)
  /\ \A r1 \in Recorded : \A r2 \in Recorded :
       r1 # r2 => RecordAddr(r1) # RecordAddr(r2)

\* C31: with Install and Uninstall called one after the other and no other
\* writer, in every state in which no assertion has failed the two bytes at
\* the address of every recorded pair are the trap signature, and an Install
\* that returned appended one pair per address it resolved, in order, the
\* first holding the bytes that were at its address when the Install began.
C31_RecordsAreTraps ==
  ~fatal =>
    /\ \A r \in Recorded : load_and_swap(mem, RecordAddr(r)) = kTrapSignature
    /\ hist.op = "Install" =>
         /\ Len(backend_data[hist.bp]) = Len(hist.data0) + Len(hist.addrs)
         /\ SubSeq(backend_data[hist.bp], 1, Len(hist.data0)) = hist.data0
         /\ \A i \in 1 .. Len(hist.addrs) :
              backend_data[hist.bp][Len(hist.data0) + i][1] = hist.addrs[i]
         /\ backend_data[hist.bp][Len(hist.data0) + 1][2] =
              load_and_swap(hist.mem0, hist.addrs[1])

C10_UninstallChecksBytes ==
  hist.op \in UninstallOps =>
    \A k \in 1 .. Len(hist.data0) :
      LET a == hist.data0[k][1] IN
      ( /\ load_and_swap(hist.mem0, a) # kTrapSignature
        /\ \A j \in 1 .. (k - 1) :
             hist.data0[j][1] - a >= 2 \/ a - hist.data0[j][1] >= 2 )
      => ( /\ fatal
           /\ load_and_swap(mem, a) = load_and_swap(hist.mem0, a)
           /\ backend_data[hist.bp] = hist.data0 )

\* another writer changed a patched byte and the Uninstall of that breakpoint
\* stopped at it, after restoring the record before it
C10_Witness ==
  /\ hist.op \in UninstallOps
  /\ writes
  /\ fatal
  /\ Len(hist.data0) = 2
  /\ load_and_swap(hist.mem0, hist.data0[1][1]) = kTrapSignature
  /\ load_and_swap(hist.mem0, hist.data0[2][1]) # kTrapSignature
  /\ load_and_swap(mem, hist.data0[1][1]) = hist.data0[1][2]
  /\ mem[hist.data0[2][1]] \in ForeignBytes

----------------------------------------------------------------------------
(* Properties of the exception dispatcher. *)

\* C3: for an illegal-instruction exception whose faulting address holds the
\* trap signature, the dispatcher calls the breakpoint-hit handler exactly
\* once, with that exception record, and returns what the handler returned.
C3_TrapIsDelegated ==
  (cb.ex.code = "kIllegalInstruction" /\ load_and_swap(mem, cb.ex.pc) = kTrapSignature) =>
    (cb.calls = <<cb.ex>> /\ cb.ret = cb.handler_ret)

\* the handler declined a trap of the backend, and the dispatcher said so
C3_Witness ==
  /\ cb.ex.code = "kIllegalInstruction"
  /\ load_and_swap(mem, cb.ex.pc) = kTrapSignature
  /\ cb.handler_ret = FALSE
  /\ cb.calls = <<cb.ex>>

\* C4: for an exception whose code is not illegal-instruction the dispatcher
\* returns not-handled and never calls the breakpoint-hit handler, whatever
\* the bytes at the faulting address.
C4_OtherCodesDeclined ==
  cb.ex.code \in (ExceptionCodes \ {"kIllegalInstruction"}) =>
    (cb.ret = FALSE /\ cb.calls = <<>>)

\* an access violation at an address holding the trap signature, with a
\* handler that would have reported it handled
C4_Witness ==
  /\ cb.ex.code = "kAccessViolation"
  /\ load_and_swap(mem, cb.ex.pc) = kTrapSignature
  /\ cb.handler_ret = TRUE
  /\ cb.ret = FALSE

\* C11: for an illegal-instruction exception whose faulting address holds two
\* bytes other than the trap signature 0F 0B, the dispatcher returns
\* not-handled and does not call the breakpoint-hit handler.
C11_OtherBytesDeclined ==
  (cb.ex.code = "kIllegalInstruction" /\ load_and_swap(cb.mem0, cb.ex.pc) # kTrapSignature) =>
    (cb.ret = FALSE /\ cb.calls = <<>>)

\* an illegal instruction at 0F 0F (the first byte of one patch overwritten by
\* the patch one byte before it), with a handler that would have handled it
C11_Witness ==
  /\ cb.ex.code = "kIllegalInstruction"
  /\ cb.mem0[cb.ex.pc] = kTrapSignature \div 256
  /\ cb.mem0[cb.ex.pc + 1] = kTrapSignature \div 256
  /\ cb.handler_ret = TRUE
  /\ cb.ret = FALSE
  /\ cb.calls = <<>>

\* C12: on each of its three paths (wrong exception kind, wrong bytes,
\* delegated) the dispatcher callback leaves code memory and every
\* breakpoint's recorded pairs as they were; on the two declining paths the
\* exception record (register snapshot and program counter) is as it was
\* delivered, and on the delegating path the handler is passed the record as
\* delivered, so that every change to it is the handler's.
C12_DispatcherChangesNothing ==
  cb.ex.code \in ExceptionCodes =>
    /\ mem = cb.mem0
    /\ backend_data = cb.data0
    /\ (cb.calls = <<>>) => (cb.ex_out = cb.ex)
    /\ (cb.calls # <<>>) =>
         cb.calls = <<cb.ex>>

\* a trap was delegated and the handler moved the program counter past it,
\* with an installed breakpoint recorded
C12_Witness ==
  /\ cb.ex.code = "kIllegalInstruction"
  /\ cb.calls = <<cb.ex>>
  /\ cb.ex_out.pc = cb.ex.pc + 2
  /\ mem = cb.mem0
  /\ \E b \in Breakpoints : backend_data[b] # <<>>

----------------------------------------------------------------------------
(* The resolver applied to one decoded instruction and one register        *)
(* snapshot.                                                               *)

\* the flag bits the resolver reads, and the always-set bit 1 it does not
FlagMasks == {X86_EFLAGS_CF, X86_EFLAGS_PF, X86_EFLAGS_ZF, X86_EFLAGS_SF, X86_EFLAGS_OF}
OtherMasks == {2}

RECURSIVE SumOf(_)
SumOf(S) == IF S = {} THEN 0 ELSE LET x == CHOOSE y \in S : TRUE IN x + SumOf(S \ {x})

EFlagsValues == {SumOf(S) : S \in SUBSET (FlagMasks \cup OtherMasks)}

\* 0x1000 and the address after it
PcValues == {4096, 4097}
\* 0x2000, and a backward target
Targets == {8192, 4000}
\* lengths of the short and the near form of a jump
JumpSizes == {2, 6}

GprIndex(r) == CHOOSE i \in 1 .. Len(GprNames) : GprNames[i] = r

\* a register snapshot: every register another value
HostContext(base, rsp, eflags) ==
  [r \in Gprs \cup {"eflags"} |->
     IF r = "eflags" THEN eflags
     ELSE IF r = "rsp" THEN rsp
     ELSE base + 256 * (GprIndex(r) - 1)]

\* <<value of rax, word on top of the stack, stack pointer>>: rax = 0x5000 and
\* 0x4000 at 0x7000, rax = 0x6000 and 0x4001 at 0x7008
Snapshots == {<<20480, 16384, 28672>>, <<24576, 16385, 28680>>}
\* the stack slots of the snapshots; a slot that is not the top holds 0x3000
StackAddrs == {sn[3] : sn \in Snapshots}

ThreadInfos ==
  {[host_context |-> HostContext(sn[1], sn[3], f),
    stack |-> [a \in StackAddrs |-> IF a = sn[3] THEN sn[2] ELSE 12288]] :
     sn \in Snapshots, f \in EFlagsValues}

Insn(id, size, op_count, op_type, imm, reg) ==
  [id |-> id, size |-> size, op_count |-> op_count, op_type |-> op_type,
   imm |-> imm, reg |-> reg]

\* what the decoder can hand back: the conditional jumps with their immediate
\* target, CALL and JMP with a register, immediate or memory operand, RET with
\* and without an operand, the j*cxz forms, other instructions, and the
\* zeroed record of a failed decode
CondJumpInsns ==
  {Insn(id, size, 1, "IMM", imm, "none") : id \in CondJumps, size \in JumpSizes, imm \in Targets}
OtherInsns ==
  {Insn(id, size, 1, "REG", 0, reg) :
     id \in {"CALL", "JMP"}, size \in {2, 3}, reg \in Gprs \cup {"eax"}}
  \cup {Insn(id, 5, 1, "IMM", imm, "none") : id \in {"CALL", "JMP"}, imm \in Targets}
  \cup {Insn(id, 6, 1, "MEM", 0, "none") : id \in {"CALL", "JMP"}}
  \cup {Insn("RET", 1, 0, "none", 0, "none"), Insn("RET", 3, 1, "IMM", 8, "none")}
  \cup {Insn(id, 2, 1, "IMM", imm, "none") : id \in {"JCXZ", "JECXZ", "JRCXZ"}, imm \in Targets}
  \cup {Insn("NOP", 1, 0, "none", 0, "none"), Insn("MOV", 3, 2, "REG", 0, "rax"),
        Insn("PUSH", 1, 1, "REG", 0, "rsp"), Insn("CMP", 7, 2, "MEM", 0, "none")}
  \cup {Insn("INVALID", 0, 0, "none", 0, "none")}

StepInputs ==
  [insn : CondJumpInsns \cup OtherInsns, thread_info : ThreadInfos, current_pc : PcValues]

InitStepper ==
  /\ mem = [a \in CodeAddr |-> CodeByte(a)]
  /\ InitBp
  /\ step_in \in StepInputs
  /\ step_out = NoStepOut

Step ==
  /\ ~step_out.done
  /\ LET r == CalculateNextHostInstruction(step_in.thread_info, step_in.current_pc,
                                           step_in.insn)
     IN step_out' = [done |-> TRUE, pc |-> r.pc, fatal |-> r.fatal]
  /\ UNCHANGED <<mem, backend_data, fatal, hist, writes, cb, step_in, life, thunkVars, race, pipe>>

NextStepper == Step

SpecStepper == InitStepper /\ [][NextStepper]_vars

----------------------------------------------------------------------------
(* Properties of the resolver. *)

\* a flag as a boolean
Flag(eflags, mask) == (eflags \div mask) % 2 = 1

StepFlags == step_in.thread_info.host_context["eflags"]
StepCF == Flag(StepFlags, X86_EFLAGS_CF)
StepPF == Flag(StepFlags, X86_EFLAGS_PF)
StepZF == Flag(StepFlags, X86_EFLAGS_ZF)
StepSF == Flag(StepFlags, X86_EFLAGS_SF)
StepOF == Flag(StepFlags, X86_EFLAGS_OF)

\* the result for a conditional jump that is taken exactly when cond holds
JumpResult(cond) ==
  /\ ~step_out.fatal
  /\ step_out.pc = IF cond THEN step_in.insn.imm
                   ELSE step_in.current_pc + step_in.insn.size

\* the predicate of the table of the specification, for the twelve jumps
\* that do not compare SF with OF
TablePredicate(id) ==
  CASE id = "JAE" -> ~StepCF /\ ~StepZF
    [] id = "JA"  -> ~StepCF
    [] id = "JBE" -> StepCF \/ StepZF
    [] id = "JB"  -> StepCF
    [] id = "JE"  -> StepZF
    [] id = "JNE" -> ~StepZF
    [] id = "JNO" -> ~StepOF
    [] id = "JNP" -> ~StepPF
    [] id = "JNS" -> ~StepSF
    [] id = "JO"  -> StepOF
    [] id = "JP"  -> StepPF
    [] id = "JS"  -> StepSF

\* the condition of the processor for each conditional jump
ArchPredicate(id) ==
  CASE id = "JA"  -> ~StepCF /\ ~StepZF
    [] id = "JAE" -> ~StepCF
    [] id = "JGE" -> StepSF = StepOF
    [] id = "JG"  -> ~StepZF /\ (StepSF = StepOF)
    [] id = "JLE" -> StepZF \/ (StepSF # StepOF)
    [] id = "JL"  -> StepSF # StepOF
    [] OTHER      -> TablePredicate(id)

\* C5: for JAE, JA, JBE, JB, JE, JNE, JNO, JNP, JNS, JO, JP, JS and every
\* value of the flags, the resolver returns the immediate target exactly when
\* the predicate of the specification's table holds, and current_pc +
\* instruction length otherwise.
C5_TableJumps ==
  (step_out.done /\ step_in.insn.id \in
     {"JAE", "JA", "JBE", "JB", "JE", "JNE", "JNO", "JNP", "JNS", "JO", "JP", "JS"})
  => JumpResult(TablePredicate(step_in.insn.id))

\* JE at 0x1000 with target 0x2000 and ZF set is resolved to 0x2000
C5_Witness ==
  /\ step_out.done
  /\ step_in.insn.id = "JE"
  /\ step_in.current_pc = 4096
  /\ step_in.insn.imm = 8192
  /\ step_in.insn.size = 2
  /\ StepZF
  /\ step_out.pc = 8192

\* C6: for every value of the flags the resolver takes JGE exactly when
\* SF = OF, JG exactly when ZF = 0 and SF = OF, and JL exactly when SF # OF,
\* SF and OF compared as booleans.
C6_SignedJumps ==
  (step_out.done /\ step_in.insn.id \in {"JGE", "JG", "JL"})
  => JumpResult(ArchPredicate(step_in.insn.id))

\* C7: for every value of the flags the resolver takes JLE exactly when
\* ZF = 1 or SF # OF, and returns current_pc + instruction length when ZF = 0
\* and SF = OF.
C7_JumpLessOrEqual ==
  (step_out.done /\ step_in.insn.id = "JLE")
  => JumpResult(StepZF \/ (StepSF # StepOF))

\* C8: for every conditional jump and every value of the flags the resolver's
\* decision is the condition of the processor for that jump.
C8_ArchitecturalConditions ==
  (step_out.done /\ step_in.insn.id \in CondJumps)
  => JumpResult(ArchPredicate(step_in.insn.id))

----------------------------------------------------------------------------
(* Properties of the backend coordinator. *)

\* C13: over the whole life of a backend object (construction, zero or more
\* Initialize calls that succeed or fail, destruction) the exception
\* dispatcher is installed exactly once and uninstalled exactly once, and no
\* Uninstall is issued for a handler that is not installed.
C13_InstalledOnceUninstalledOnce ==
  /\ life.unmatched_uninstalls = 0
  /\ life.phase = "destroyed" =>
       (life.handler_installs = 1 /\ life.handler_uninstalls = 1)

\* the last call of Initialize got past base initialization and failed at
\* code_cache_->Initialize(), and nothing was called on the object since
CacheInitFailed ==
  /\ life.phase = "constructed"
  /\ life.args.called
  /\ life.args.base_ok
  /\ ~life.args.cache_ok

\* C26: when code-cache initialization fails, Initialize returns false and
\* that call emits no thunk, sets no default indirection, allocates no
\* emitter data and does not install the exception dispatcher.
C26_CacheFailureStopsInitialize ==
  CacheInitFailed =>
    /\ life.last_result = FALSE
    /\ ~life.fatal
    /\ life.code_cache_ = "created"
    /\ LifeCounters(life) = life.entry

\* code-cache initialization failed in a call that followed a successful one
C26_Witness ==
  /\ CacheInitFailed
  /\ life.initialize_calls >= 2
  /\ life.entry.handler_installs = 1
  /\ life.entry.thunk_emits = 3
  /\ life.last_result = FALSE

\* C27: when cs_open fails in the constructor, no assertion ends the program
\* and every Initialize on that object returns false.
C27_CsOpenFailureReported ==
  (life.phase # "new" /\ ~life.cs_open_ok) =>
    /\ ~life.fatal
    /\ life.args.called => life.last_result = FALSE

\* C28: when an object on which Initialize only ever failed is destroyed, the
\* destructor frees no emitter data, closes the disassembler it opened, and
\* issues no Uninstall for the never-installed exception callback.
C28_TeardownAfterPartialFailure ==
  (life.phase = "destroyed" /\ life.args.called /\ life.handler_installs = 0) =>
    /\ life.heap_frees = 0
    /\ life.cs_closes = 1
    /\ life.capstone_handle_ = 0
    /\ life.handler_uninstalls = 0
    /\ life.unmatched_uninstalls = 0

\* C29: in every state in which the dispatcher is registered (and no assertion
\* has failed), the code cache is initialized, the three thunk handles are set
\* and the default indirection is the resolve-function thunk.
C29_RegisteredImpliesReady ==
  (life.registered > 0 /\ ~life.fatal) =>
    /\ life.code_cache_ = "initialized"
    /\ life.thunks
    /\ life.indirection_default = "resolve_function_thunk"

----------------------------------------------------------------------------
(* Properties of the thunks. *)

\* what the thunk that was entered did itself (not a thunk its target entered)
ThunkTrace == SelectSeq(thunk_out.trace, LAMBDA e : e.level = 0)
ThunkEvents(op) == {ThunkTrace[i] : i \in {j \in 1 .. Len(ThunkTrace) : ThunkTrace[j].op = op}}
\* the ret or jmp the thunk left by
ThunkExit == ThunkTrace[Len(ThunkTrace)]
\* the stack pointer while the frame is reserved
FrameRsp == EntryRsp - THUNK_STACK_SIZE
CalleeSavedGprs == {"rbx", "rbp", "rsi", "rdi", "r12", "r13", "r14", "r15"}
\* <<register, frame offset>> of the stores, or loads, made in the frame
FrameSlots(op) == {<<e.reg, e.addr - e.rsp>> : e \in {x \in ThunkEvents(op) : x.rsp < EntryRsp}}

\* C14: whatever the registers hold at entry and whatever its target
\* overwrites (every register but rsp, the stack balanced), the host-to-guest
\* thunk returns with rbx, rbp, rsi, rdi, r12, r13, r14, r15 as at entry,
\* also when the target calls through the guest-to-host thunk; and in each
\* thunk the registers stored in the frame before the call and those loaded
\* from it after the call are the same registers at the same offsets.
C14_CalleeSavedPreserved ==
  thunk_out.done =>
    /\ thunk_in.thunk = "HostToGuest" =>
         \A r \in CalleeSavedGprs : thunk_out.regs[r] = thunk_in.regs[r]
    /\ FrameSlots("store") = FrameSlots("load")
    /\ \A e \in ThunkEvents("store") : \A c \in ThunkEvents("call") :
         e.rsp < EntryRsp => \E i, j \in 1 .. Len(ThunkTrace) :
                               i < j /\ ThunkTrace[i] = e /\ ThunkTrace[j] = c

\* the host-to-guest thunk returned after a target that overwrote every
\* register and called a host function through the guest-to-host thunk
C14_Witness ==
  /\ thunk_out.done
  /\ thunk_in.thunk = "HostToGuest"
  /\ thunk_in.env.clobber = "all"
  /\ thunk_in.env.nested
  /\ \E i \in 1 .. Len(thunk_out.trace) :
       thunk_out.trace[i].level = 1 /\ thunk_out.trace[i].op = "ret"
  /\ ThunkExit.op = "ret"
  /\ thunk_out.regs["r15"] = thunk_in.regs["r15"]

\* C15: the host-to-guest thunk returns with xmm6..xmm15 as at entry, also
\* for a target that overwrites them.
C15_VectorRegistersPreserved ==
  (thunk_out.done /\ thunk_in.thunk = "HostToGuest") =>
    \A x \in Xmms : thunk_out.regs[x] = thunk_in.regs[x]

\* C16: in each of the three thunks the stack pointer at the final ret or jmp
\* is the stack pointer at entry; a slot below the entry stack pointer is
\* written only while the frame is reserved and lies inside the
\* THUNK_STACK_SIZE bytes of the frame; and no store made while the frame is
\* reserved reaches beyond the frame.
C16_FrameIsBalanced ==
  thunk_out.done =>
    /\ ThunkExit.op \in {"ret", "jmp"}
    /\ ThunkExit.rsp = EntryRsp
    /\ \A e \in ThunkEvents("store") :
         /\ e.addr < EntryRsp => (e.rsp = FrameRsp /\ e.addr >= FrameRsp)
         /\ e.rsp < EntryRsp => (e.addr >= e.rsp /\ e.addr + 8 <= EntryRsp)

\* the resolve-function thunk left by its jmp, having stored r15 into the
\* topmost slot of the frame
C16_Witness ==
  /\ thunk_out.done
  /\ thunk_in.thunk = "ResolveFunction"
  /\ ThunkExit.op = "jmp"
  /\ ThunkExit.rsp = EntryRsp
  /\ \E e \in ThunkEvents("store") : e.reg = "r15" /\ e.addr = EntryRsp - 8

\* C17: the resolve-function thunk calls the resolver once, with the context
\* it was entered with in rcx and the guest target address (rbx at entry) in
\* rdx; it leaves by a jmp to the address the resolver returned; and at that
\* jmp rsp, rbx, rbp, rsi, rdi, r12..r15, rcx and rdx are as at entry.
C17_ResolveThunkTailJumps ==
  (thunk_out.done /\ thunk_in.thunk = "ResolveFunction") =>
    /\ Cardinality(ThunkEvents("call")) = 1
    /\ \A c \in ThunkEvents("call") :
         /\ c.addr = ResolveFunction
         /\ c.regs["rcx"] = thunk_in.regs["rcx"]
         /\ c.regs["rdx"] = thunk_in.regs["rbx"]
    /\ ThunkExit.op = "jmp"
    /\ ThunkExit.addr = thunk_in.env.ret
    /\ \A r \in CalleeSavedGprs \cup {"rsp", "rcx", "rdx"} :
         ThunkExit.regs[r] = thunk_in.regs[r]

\* the resolver overwrote the volatile registers and the thunk jumped to the
\* address it returned
C17_Witness ==
  /\ thunk_out.done
  /\ thunk_in.thunk = "ResolveFunction"
  /\ thunk_in.env.clobber = "volatile"
  /\ ThunkExit.op = "jmp"
  /\ ThunkExit.addr = thunk_in.env.ret
  /\ ThunkExit.regs["rcx"] = thunk_in.regs["rcx"]

\* C18: the host-to-guest thunk entered with (rcx = target, rdx = arg0,
\* r8 = arg1) calls target with rcx = arg0 and rdx = arg1 and returns with
\* the rax the target returned; the guest-to-host thunk entered with
\* (rcx = context, rdx = target, r8 = arg0, r9 = arg1, r10 = arg2) calls
\* target with rcx = context, rdx = arg0, r8 = arg1, r9 = arg2.
C18_ArgumentsAreRemapped ==
  thunk_out.done =>
    /\ thunk_in.thunk = "HostToGuest" =>
         /\ Cardinality(ThunkEvents("call")) = 1
         /\ \A c \in ThunkEvents("call") :
              /\ c.addr = thunk_in.regs["rcx"]
              /\ c.regs["rcx"] = thunk_in.regs["rdx"]
              /\ c.regs["rdx"] = thunk_in.regs["r8"]
         /\ thunk_out.regs["rax"] = thunk_in.env.ret
    /\ thunk_in.thunk = "GuestToHost" =>
         /\ Cardinality(ThunkEvents("call")) = 1
         /\ \A c \in ThunkEvents("call") :
              /\ c.addr = thunk_in.regs["rdx"]
              /\ c.regs["rcx"] = thunk_in.regs["rcx"]
              /\ c.regs["rdx"] = thunk_in.regs["r8"]
              /\ c.regs["r8"] = thunk_in.regs["r9"]
              /\ c.regs["r9"] = thunk_in.regs["r10"]

\* the guest-to-host thunk called its target and returned
C18_Witness ==
  /\ thunk_out.done
  /\ thunk_in.thunk = "GuestToHost"
  /\ \E c \in ThunkEvents("call") : c.regs["r9"] = thunk_in.regs["r10"]
  /\ ThunkExit.op = "ret"

----------------------------------------------------------------------------
(* Properties of the resolver: RET and CALL. *)

\* C19: for a RET without operand the resolver returns the 64-bit word stored
\* at the address the snapshot's rsp holds, whatever current_pc, the flags and
\* the other registers are; a RET with an operand ends in the assertion.
C19_RetReadsStack ==
  (step_out.done /\ step_in.insn.id = "RET") =>
    IF step_in.insn.op_count = 0
    THEN /\ ~step_out.fatal
         /\ step_out.pc =
              step_in.thread_info.stack[step_in.thread_info.host_context["rsp"]]
    ELSE step_out.fatal

\* rsp = 0x7000 and the word 0x4000 at 0x7000: a RET at 0x1001 with all five
\* flags set is resolved to 0x4000
C19_Witness ==
  /\ step_out.done
  /\ step_in.insn.id = "RET"
  /\ step_in.insn.op_count = 0
  /\ step_in.current_pc = 4097
  /\ step_in.thread_info.host_context["rsp"] = 28672
  /\ step_in.thread_info.stack[28672] = 16384
  /\ \A f \in FlagMasks : Flag(StepFlags, f)
  /\ step_out.pc = 16384
  /\ ~step_out.fatal

\* C20: for a CALL whose one operand is any of the sixteen 64-bit
\* general-purpose registers the resolver returns the snapshot value of that
\* register, whatever current_pc, the instruction length and the flags are.
C20_CallRegister ==
  (/\ step_out.done
   /\ step_in.insn.id = "CALL"
   /\ step_in.insn.op_count = 1
   /\ step_in.insn.op_type = "REG"
   /\ step_in.insn.reg \in Gprs) =>
    /\ ~step_out.fatal
    /\ step_out.pc = step_in.thread_info.host_context[step_in.insn.reg]

\* rax = 0x5000: CALL RAX is resolved to 0x5000; and a three-byte CALL R15 is
\* resolved to the value of r15
C20_Witness ==
  /\ step_out.done
  /\ step_in.insn.id = "CALL"
  /\ step_in.insn.op_type = "REG"
  /\ \/ /\ step_in.insn.reg = "rax"
        /\ step_in.thread_info.host_context["rax"] = 20480
        /\ step_out.pc = 20480
     \/ /\ step_in.insn.reg = "r15"
        /\ step_in.insn.size = 3
        /\ step_out.pc = step_in.thread_info.host_context["r15"]

----------------------------------------------------------------------------
(* Properties of the resolver: JMP, the unimplemented forms, instructions  *)
(* that are not branches, and operands it does not support.                *)

JcxzForms == {"JCXZ", "JECXZ", "JRCXZ"}
\* the instruction ids CalculateNextHostInstruction has a case for
BranchIds == {"CALL", "RET", "JMP"} \cup JcxzForms \cup CondJumps
StepInsn == step_in.insn
StepContext == step_in.thread_info.host_context
FallThrough == step_in.current_pc + StepInsn.size

\* C21: for a JMP with one operand the resolver returns the immediate when
\* the operand is an immediate, and the snapshot value of the register when
\* the operand is one of the sixteen 64-bit general-purpose registers,
\* whatever the flags are.
C21_JmpTargets ==
  (step_out.done /\ StepInsn.id = "JMP" /\ StepInsn.op_count = 1) =>
    /\ StepInsn.op_type = "IMM" => (~step_out.fatal /\ step_out.pc = StepInsn.imm)
    /\ (StepInsn.op_type = "REG" /\ StepInsn.reg \in Gprs) =>
         (~step_out.fatal /\ step_out.pc = StepContext[StepInsn.reg])

\* a JMP to the immediate 4000 from 0x1001 with all five flags set, and a
\* JMP R11 with none set
C21_Witness ==
  /\ step_out.done
  /\ StepInsn.id = "JMP"
  /\ ~step_out.fatal
  /\ \/ /\ StepInsn.op_type = "IMM"
        /\ step_in.current_pc = 4097
        /\ \A f \in FlagMasks : Flag(StepFlags, f)
        /\ step_out.pc = 4000
     \/ /\ StepInsn.op_type = "REG"
        /\ StepInsn.reg = "r11"
        /\ StepFlags = 0
        /\ step_out.pc = StepContext["r11"]

\* C22: for a JMP through a memory operand and for JCXZ, JECXZ, JRCXZ the
\* resolver returns current_pc + instruction length as a normal result, with
\* no fatal error, whatever the registers and flags hold.
C22_UnimplementedFallThrough ==
  (/\ step_out.done
   /\ \/ StepInsn.id = "JMP" /\ StepInsn.op_count = 1 /\ StepInsn.op_type = "MEM"
      \/ StepInsn.id \in JcxzForms) =>
    (~step_out.fatal /\ step_out.pc = FallThrough)

\* C23: for every instruction that is not CALL, RET, JMP, a J*CXZ form or a
\* conditional jump the resolver returns current_pc + instruction length, and
\* the result is the same for every register snapshot and every value of the
\* flags.
C23_NotABranch ==
  (step_out.done /\ StepInsn.id \notin BranchIds) =>
    /\ ~step_out.fatal
    /\ step_out.pc = FallThrough
    /\ \A ti \in ThreadInfos :
         CalculateNextHostInstruction(ti, step_in.current_pc, StepInsn) =
           [pc |-> FallThrough, fatal |-> FALSE]

\* the seven-byte CMP at 0x1000 is stepped over to 0x1007
C23_Witness ==
  /\ step_out.done
  /\ StepInsn.id = "CMP"
  /\ step_in.current_pc = 4096
  /\ step_out.pc = 4103
  /\ ~step_out.fatal

\* C24: an instruction id the resolver does not recognise, the invalid id of
\* a failed decode included, ends in the fatal unhandled-case error and is
\* not answered with a next address.
C24_UnknownIdIsFatal ==
  (step_out.done /\ StepInsn.id = "INVALID") => step_out.fatal

\* C25: a CALL whose operand is not a single register (an immediate or a
\* memory operand) ends in the assertion; no target address is returned.
C25_CallOperandRejected ==
  (step_out.done /\ StepInsn.id = "CALL" /\
   ~(StepInsn.op_count = 1 /\ StepInsn.op_type = "REG")) =>
    (step_out.fatal /\ step_out.pc \notin Targets)

\* a CALL of the immediate 0x2000 was rejected
C25_Witness ==
  /\ step_out.done
  /\ StepInsn.id = "CALL"
  /\ StepInsn.op_type = "IMM"
  /\ StepInsn.imm = 8192
  /\ step_out.fatal

\* C35: whenever the resolver takes the not-a-branch path, a failed decode
\* included, the address it returns is strictly greater than current_pc.
C35_NotABranchMakesProgress ==
  (step_out.done /\ StepInsn.id \notin BranchIds) =>
    (~step_out.fatal /\ step_out.pc > step_in.current_pc)

----------------------------------------------------------------------------
(* Properties of InstallBreakpoint(breakpoint, fn). *)

\* the last call was InstallBreakpoint(breakpoint, fn) for a guest breakpoint
\* and a guest function
GuestInstall ==
  /\ hist.op = "InstallFn"
  /\ hist.address_type = "kGuest"
  /\ hist.is_guest
\* the bytes of code memory the call changed
Written == {a \in CodeAddr : mem[a] # hist.mem0[a]}

\* C36 as claimed: without a host mapping nothing is written and nothing is
\* recorded; with a mapping the call patches that address and appends one pair.
C36_MappedAlwaysPatches ==
  GuestInstall =>
    /\ hist.addrs[1] = NoHostAddress =>
         (mem = hist.mem0 /\ backend_data[hist.bp] = hist.data0)
    /\ hist.addrs[1] # NoHostAddress =>
         /\ load_and_swap(mem, hist.addrs[1]) = kTrapSignature
         /\ backend_data[hist.bp] =
              Append(hist.data0, <<hist.addrs[1], load_and_swap(hist.mem0, hist.addrs[1])>>)

\* C36: InstallBreakpoint(breakpoint, fn) for a guest breakpoint whose guest
\* address has no host mapping writes no byte and appends no pair, and ends in
\* assert_always; with a mapping to an address that does not hold the trap
\* signature it writes the trap at that address only and appends exactly the
\* pair (address, bytes before); with a mapping to an address that holds the
\* trap signature it ends in the assertion with nothing written or appended.
C36_GuestInstall ==
  GuestInstall =>
    /\ hist.addrs[1] = NoHostAddress =>
         (fatal /\ mem = hist.mem0 /\ backend_data[hist.bp] = hist.data0)
    /\ (hist.addrs[1] # NoHostAddress
          /\ load_and_swap(hist.mem0, hist.addrs[1]) # kTrapSignature) =>
         /\ ~fatal
         /\ load_and_swap(mem, hist.addrs[1]) = kTrapSignature
         /\ Written \subseteq {hist.addrs[1], hist.addrs[1] + 1}
         /\ backend_data[hist.bp] =
              Append(hist.data0, <<hist.addrs[1], load_and_swap(hist.mem0, hist.addrs[1])>>)
    /\ (hist.addrs[1] # NoHostAddress
          /\ load_and_swap(hist.mem0, hist.addrs[1]) = kTrapSignature) =>
         (fatal /\ mem = hist.mem0 /\ backend_data[hist.bp] = hist.data0)

\* a guest breakpoint with a record was installed in a function that has no
\* machine code for its guest address
C36_Witness ==
  /\ GuestInstall
  /\ hist.addrs[1] = NoHostAddress
  /\ hist.data0 # <<>>
  /\ backend_data[hist.bp] = hist.data0
  /\ mem = hist.mem0

----------------------------------------------------------------------------
(* Properties of installing and uninstalling a set of breakpoints. *)

\* C32: when every breakpoint is installed once, on pairwise distinct host
\* addresses (addresses one byte apart included), and then every breakpoint
\* is uninstalled, in any order, no assertion fails and code memory ends equal
\* to its contents before the first Install.
C32_InstallAllUninstallAll ==
  hist.op = "all" =>
    /\ ~fatal
    /\ hist.uninstalled = Breakpoints => mem = hist.mem_init

----------------------------------------------------------------------------
(* Properties of the patcher and the dispatcher with two threads. *)

\* C33: for every interleaving of two InstallBreakpoint calls, made by two
\* threads for two breakpoints that resolve to the same host address, at most
\* one call stores the trap signature, no recorded pair holds the trap
\* signature as its original bytes, and once both breakpoints have been
\* uninstalled code memory is as it was before the calls.
C33_RacingInstallsPatchOnce ==
  race.kind = "install" =>
    /\ race.stores <= 1
    /\ \A r \in Recorded : backend_data[r[1]][r[2]][2] # kTrapSignature
    /\ ((\A t \in Threads : race.at[t] = "done")
          /\ (\A b \in Breakpoints : backend_data[b] = <<>>)
          /\ ~fatal) => mem = race.mem_init

\* C34: every illegal-instruction exception a thread raises by executing the
\* trap signature of an installed breakpoint is handed to
\* Processor::OnThreadBreakpointHit, whatever UninstallBreakpoint calls
\* another thread makes between the trap and the dispatch.
C34_TrapAlwaysDelegated ==
  (race.kind = "trap" /\ race.at = "dispatched") => race.calls = <<race.ex>>

----------------------------------------------------------------------------
(* Properties of the pipeline cache. *)

\* the shader stages a pipeline for these arguments is made of
StagesFor(vertex_shader, pixel_shader, primitive_type) ==
  IF GetGeometryShader(primitive_type).module # "null"
  THEN <<vertex_shader, GetGeometryShader(primitive_type).module, pixel_shader>>
  ELSE <<vertex_shader, pixel_shader>>

\* C37: whenever ConfigurePipeline returns true, the pipeline it bound was
\* created from the vertex shader, the pixel shader and the primitive type of
\* that call.
C37_BoundPipelineMatchesCall ==
  (pipe.kind = "pipe" /\ pipe.last.ret) =>
    /\ ~pipe.last.bound.null
    /\ pipe.last.bound.stages =
         StagesFor(pipe.last.vertex_shader, pipe.last.pixel_shader,
                   pipe.last.primitive_type)
    /\ pipe.last.bound.vertex_input = pipe.last.vertex_shader
    /\ pipe.last.bound.topology = Topology(pipe.last.primitive_type)

\* C38: a ConfigurePipeline call whose primitive type has no topology does not
\* return true and binds no pipeline, whether it is the first such call or a
\* repeated one.
C38_UnsupportedTypeNeverBinds ==
  (pipe.kind = "pipe" /\ pipe.calls > 0
     /\ Topology(pipe.last.primitive_type) = "none") =>
    (~pipe.last.ret /\ pipe.last.bound.null)

====
